---- MODULE Spec2Model ----
(***************************************************************************)
(* Secure Environment Manager: the encrypted current-state store           *)
(* (app.py), the history log (history_manager.py) and the audit log        *)
(* (audit_logger.py).                                                      *)
(*                                                                         *)
(* A Python str is a sequence of one-character strings; a dict is a        *)
(* function from its keys; a file is a record [exists, data]; a JSON       *)
(* lines log is a sequence of lines.                                       *)
(***************************************************************************)
EXTENDS Integers, Sequences, FiniteSets, TLC

(* ------------------------------ bounds -------------------------------- *)
\* most lines of one history log
MaxHist == 2
\* most lines of the audit log
MaxAudit == 2

(* --------------------------- strings, keys ---------------------------- *)
KeyA == <<"A">>
KeyB == <<"B">>
\* "A" followed by a line feed
KeyNL == <<"A", "\n">>
KeyDash == <<"-", "A">>
KeyError == <<"e", "r", "r", "o", "r">>
Val1 == <<"1">>
Val2 == <<"2">>
EmptyStr == << >>
\* the text of read_vars' decryption-failure marker, held as one symbol
DecryptFailedText == <<"Decryption failed. Invalid key or corrupted data.">>
StrALL == <<"A", "L", "L">>
StrVARIOUS == <<"V", "A", "R", "I", "O", "U", "S">>
StrROLLBACK == <<"R", "O", "L", "L", "B", "A", "C", "K">>

\* [A-Za-z0-9_] restricted to the characters the model uses
WordChars == {"A", "B", "L", "e", "r", "o", "1", "2", "_"}
\* [A-Za-z0-9_.-]
TailChars == WordChars \cup {".", "-"}
\* str.strip() removes these
Whitespace == {" ", "\n", "\t"}

\* code points, for the order sorted() puts keys in
CharCode(c) ==
  CASE c = "\t" -> 9   [] c = "\n" -> 10  [] c = " " -> 32  [] c = "#" -> 35
    [] c = "-" -> 45   [] c = "." -> 46   [] c = "1" -> 49  [] c = "2" -> 50
    [] c = "=" -> 61   [] c = "A" -> 65   [] c = "B" -> 66  [] c = "L" -> 76
    [] c = "_" -> 95   [] c = "e" -> 101  [] c = "o" -> 111 [] c = "r" -> 114
    [] OTHER -> 127

RECURSIVE StrLess(_, _)
StrLess(a, b) ==
  IF a = << >> THEN b # << >>
  ELSE IF b = << >> THEN FALSE
  ELSE IF a[1] = b[1] THEN StrLess(Tail(a), Tail(b))
  ELSE CharCode(a[1]) < CharCode(b[1])

RECURSIVE LStrip(_)
LStrip(s) == IF s # << >> /\ s[1] \in Whitespace THEN LStrip(Tail(s)) ELSE s

RECURSIVE RStrip(_)
RStrip(s) ==
  IF s # << >> /\ s[Len(s)] \in Whitespace
  THEN RStrip(SubSeq(s, 1, Len(s) - 1)) ELSE s

Strip(s) == RStrip(LStrip(s))

\* the pattern between ^ and $: one word character, then at most 127 of the tail set
KeyBodyMatch(s) ==
  /\ Len(s) >= 1
  /\ Len(s) <= 128
  /\ s[1] \in WordChars
  /\ \A i \in 2..Len(s) : s[i] \in TailChars

\* re.match with a final $: $ matches at the end of the string and also just
\* before a line feed that ends the string
KEY_PATTERN(k) ==
  \/ KeyBodyMatch(k)
  \/ /\ Len(k) >= 1
     /\ k[Len(k)] = "\n"
     /\ KeyBodyMatch(SubSeq(k, 1, Len(k) - 1))

\* [A-Za-z0-9_.-] restricted to the characters the model uses
SegmentChars == TailChars \cup {"a", "p", "d"}

\* the pattern between ^ and $: 1 to 64 characters of the segment set
SegmentBodyMatch(s) ==
  /\ Len(s) >= 1
  /\ Len(s) <= 64
  /\ \A i \in 1..Len(s) : s[i] \in SegmentChars

\* SEGMENT_PATTERN.match: the final $ also matches just before a line feed
\* that ends the string
SEGMENT_PATTERN(s) ==
  \/ SegmentBodyMatch(s)
  \/ /\ Len(s) >= 1
     /\ s[Len(s)] = "\n"
     /\ SegmentBodyMatch(SubSeq(s, 1, Len(s) - 1))

\* validate_segments: TRUE when it returns, FALSE when it aborts with 404
validate_segments(id) == SEGMENT_PATTERN(id[1]) /\ SEGMENT_PATTERN(id[2])

(* ------------------------------- dicts -------------------------------- *)
EmptyMap == << >>

DictSet(d, k, v) == [x \in (DOMAIN d) \cup {k} |-> IF x = k THEN v ELSE d[x]]

DictPop(d, k) == [x \in (DOMAIN d) \ {k} |-> d[x]]

\* d.update(other)
DictUpdate(d, other) ==
  [x \in (DOMAIN d) \cup (DOMAIN other) |-> IF x \in DOMAIN other THEN other[x] ELSE d[x]]

\* d.get(k, default)
DictGet(d, k, default) == IF k \in DOMAIN d THEN d[k] ELSE default

MinKey(S) == CHOOSE k \in S : \A o \in S \ {k} : StrLess(k, o)

RECURSIVE SortedKeys(_)
SortedKeys(S) ==
  IF S = {} THEN << >> ELSE <<MinKey(S)>> \o SortedKeys(S \ {MinKey(S)})

(* ------------------------------- Fernet ------------------------------- *)
\* A token is a sequence of cells: the IV, the payload cells, and the HMAC over
\* everything before it.  The key is process wide and the same for every call.
FernetEncrypt(plain, iv) ==
  <<[iv |-> iv]>> \o plain \o <<[hmac |-> <<[iv |-> iv]>> \o plain]>>

\* [ok |-> FALSE] stands for InvalidToken
FernetDecrypt(token) ==
  LET n == Len(token) IN
  IF /\ n >= 2
     /\ DOMAIN token[n] = {"hmac"}
     /\ token[n].hmac = SubSeq(token, 1, n - 1)
  THEN [ok |-> TRUE, plain |-> SubSeq(token, 2, n - 1)]
  ELSE [ok |-> FALSE, plain |-> << >>]

(* ------------------------ current-state store ------------------------- *)
NoFile == [exists |-> FALSE, data |-> << >>]

\* {k: str(v) for k, v in sorted(data.items()) if KEY_PATTERN.match(k)}
Sanitize(data) ==
  [k \in {x \in DOMAIN data : KEY_PATTERN(x)} |-> data[k]]

\* json.dumps of a dict of strings: its items in the dict's order
JsonDumpsVars(d) ==
  LET ks == SortedKeys(DOMAIN d) IN
  [i \in 1..Len(ks) |-> [key |-> ks[i], val |-> d[ks[i]]]]

\* json.loads of an object: a later item of the same key wins
JsonLoadsVars(plain) ==
  LET keys == {plain[i].key : i \in 1..Len(plain)}
      last(k) == CHOOSE i \in 1..Len(plain) :
                   /\ plain[i].key = k
                   /\ \A j \in (i + 1)..Len(plain) : plain[j].key # k
  IN [k \in keys |-> plain[last(k)].val]

ErrorMap == [k \in {KeyError} |-> DecryptFailedText]

\* the bytes written with the encryption step forgotten
WriteVarsBytesPlain(data, iv) == JsonDumpsVars(Sanitize(data))

\* the bytes written with the filter on the keys forgotten
WriteVarsBytesUnsanitized(data, iv) == FernetEncrypt(JsonDumpsVars(data), iv)

\* the bytes write_vars puts in the file
WriteVarsBytes(data, iv) == FernetEncrypt(JsonDumpsVars(Sanitize(data)), iv)

\* a decryption failure answered with {}, as _decrypt_data of the history does
DecodeVarsEmptyOnFailure(bytes) ==
  LET d == FernetDecrypt(bytes) IN
  IF d.ok THEN JsonLoadsVars(d.plain) ELSE EmptyMap

\* what read_vars makes of the bytes it read
DecodeVars(bytes) ==
  LET d == FernetDecrypt(bytes) IN
  IF d.ok THEN JsonLoadsVars(d.plain) ELSE ErrorMap

\* read_vars run alone on file f
read_vars(f) == IF ~f.exists THEN EmptyMap ELSE DecodeVars(f.data)

\* write_vars run alone: the file it leaves
write_vars(data, iv) == [exists |-> TRUE, data |-> WriteVarsBytes(data, iv)]

(* ---------------------------- JSON lines ------------------------------ *)
\* json.dumps of a dict whose keys were inserted in the order `names`: the text
\* of the object, its items <<name, value>> in that order
JsonDumpsObj(d, names) == [i \in 1..Len(names) |-> <<names[i], d[names[i]]>>]

\* json.loads of one line: a dict, a later item of the same name winning
JsonLoadsObj(line) ==
  LET names == {line[i][1] : i \in 1..Len(line)}
      last(n) == CHOOSE i \in 1..Len(line) :
                   /\ line[i][1] = n
                   /\ \A j \in (i + 1)..Len(line) : line[j][1] # n
  IN [n \in names |-> line[last(n)][2]]

\* where the text of a line broke off
CutMarker == <<"...">>

\* the line that holds the JSON text null
LineNull == <<<<"null">>>>

\* None, the value json.loads gives for null
JsonNull == [null |-> TRUE]

\* json.loads(line.strip()): "dict" when the text is an object, "other" when
\* it is another JSON value, "error" when it raises JSONDecodeError
JsonKind(line) ==
  IF \A i \in 1..Len(line) : Len(line[i]) = 2 THEN "dict"
  ELSE IF line = LineNull THEN "other"
  ELSE "error"

\* the value json.loads returns for a line that parses
JsonLoads(line) == IF JsonKind(line) = "dict" THEN JsonLoadsObj(line) ELSE JsonNull

RECURSIVE Reversed(_)
Reversed(s) == IF s = << >> THEN << >> ELSE Append(Reversed(Tail(s)), Head(s))

\* s[:n] for n >= 0
Take(s, n) == SubSeq(s, 1, IF n < Len(s) THEN n ELSE Len(s))

(* ---------------------------- history log ----------------------------- *)
\* the snapshot's variables filtered as write_vars filters them
_encrypt_data_sanitized(data, iv) ==
  FernetEncrypt(JsonDumpsVars([k \in {x \in DOMAIN data : KEY_PATTERN(x)} |-> data[k]]), iv)

\* json.dumps(data) then Fernet; the dict is not sanitized here
_encrypt_data(data, iv) == FernetEncrypt(JsonDumpsVars(data), iv)

\* any failure is logged and gives {}
_decrypt_data(token) ==
  LET d == FernetDecrypt(token) IN
  IF d.ok THEN JsonLoadsVars(d.plain) ELSE EmptyMap

SnapshotFields == <<"id", "timestamp", "user_id", "action", "description", "variables">>

\* the line save_snapshot builds before it opens the file
SnapshotLine(snapshot_id, timestamp, variables, user_id, action, description, iv) ==
  JsonDumpsObj([id |-> snapshot_id,
                timestamp |-> timestamp,
                user_id |-> user_id,
                action |-> action,
                description |-> description,
                variables |-> _encrypt_data(variables, iv)], SnapshotFields)

\* the file opened with "w" in place of "a"
AppendLineTruncating(f, line) == [exists |-> TRUE, data |-> <<line>>]

\* the text of the file does not end with a line feed: its last line broke off
EndsCut(f) ==
  /\ f.data # << >>
  /\ f.data[Len(f.data)] # << >>
  /\ f.data[Len(f.data)][Len(f.data[Len(f.data)])] = CutMarker

\* open(history_file, "a") and one write: the file it leaves.  The text goes
\* to the end of the file, behind a last line that broke off when there is one
AppendLine(f, line) ==
  IF EndsCut(f)
  THEN [exists |-> TRUE, data |-> [f.data EXCEPT ![Len(f.data)] = @ \o line]]
  ELSE [exists |-> TRUE, data |-> Append(f.data, line)]

\* an append that raises after n items of the line reached the file
AppendCut(f, line, n) ==
  IF n = 0 THEN [exists |-> TRUE, data |-> f.data]
  ELSE AppendLine(f, SubSeq(line, 1, n) \o <<CutMarker>>)

\* save_snapshot run alone on history file f
save_snapshot(f, snapshot_id, timestamp, variables, user_id, action, description, iv) ==
  AppendLine(f, SnapshotLine(snapshot_id, timestamp, variables, user_id, action,
                             description, iv))

\* entry.pop("variables", None)
PopVariables(entry) == [n \in (DOMAIN entry) \ {"variables"} |-> entry[n]]

\* get_history with the variables left in each entry
get_history_with_variables(f, limit) ==
  IF ~f.exists THEN << >>
  ELSE Take(Reversed([i \in 1..Len(f.data) |-> JsonLoadsObj(f.data[i])]), limit)

\* get_history with the reversal forgotten
get_history_oldest_first(f, limit) ==
  IF ~f.exists THEN << >>
  ELSE Take([i \in 1..Len(f.data) |-> PopVariables(JsonLoadsObj(f.data[i]))], limit)

\* get_history on history file f: a line that raises JSONDecodeError is passed
\* over; entry.pop on a value that is no dict raises AttributeError, which the
\* outer except answers with []
get_history(f, limit) ==
  IF ~f.exists THEN << >>
  ELSE IF \E i \in 1..Len(f.data) : JsonKind(f.data[i]) = "other" THEN << >>
  ELSE LET lines == SelectSeq(f.data, LAMBDA line : JsonKind(line) = "dict")
           history == [i \in 1..Len(lines) |-> PopVariables(JsonLoadsObj(lines[i]))]
       IN Take(Reversed(history), limit)

\* the "" that save_snapshot returns in place of an id; ids are numbers here
NoSnapshotId == -1

NotFound == [found |-> FALSE]

\* get_snapshot, the loop over the lines: a line that raises JSONDecodeError
\* is passed over; entry["id"] or entry["variables"] on a value without it
\* raises TypeError or KeyError, which the outer except answers with None
RECURSIVE GetSnapshotScan(_, _)
GetSnapshotScan(lines, snapshot_id) ==
  IF lines = << >> THEN NotFound
  ELSE IF JsonKind(Head(lines)) = "error" THEN GetSnapshotScan(Tail(lines), snapshot_id)
  ELSE IF JsonKind(Head(lines)) = "other" THEN NotFound
  ELSE LET entry == JsonLoadsObj(Head(lines)) IN
       IF "id" \notin DOMAIN entry THEN NotFound
       ELSE IF entry["id"] # snapshot_id THEN GetSnapshotScan(Tail(lines), snapshot_id)
       ELSE IF "variables" \notin DOMAIN entry THEN NotFound
       ELSE [found |-> TRUE,
             entry |-> [n \in DOMAIN entry |->
                          IF n = "variables" THEN _decrypt_data(entry[n]) ELSE entry[n]]]

\* get_snapshot on history file f: the first line of that id, variables decrypted
get_snapshot(f, snapshot_id) ==
  IF ~f.exists THEN NotFound ELSE GetSnapshotScan(f.data, snapshot_id)

(* ----------------------------- audit log ------------------------------ *)
HexDigits == <<"0", "1", "2", "3", "4", "5", "6", "7", "8", "9", "a", "b", "c", "d", "e", "f">>

\* a digest of the bytes of s: many strings share one digest, as with SHA-256
RECURSIVE ByteSum(_)
ByteSum(s) == IF s = << >> THEN 0 ELSE (CharCode(Head(s)) + ByteSum(Tail(s))) % 256

\* the value itself in place of its hash
_hash_value_raw(value) == value

\* hashlib.sha256(value.encode()).hexdigest()[:16]: sixteen hex digits
_hash_value(value) ==
  LET digest == ByteSum(value) IN [i \in 1..16 |-> HexDigits[((digest * i) % 16) + 1]]

\* _write_log run alone on the audit file; names: the entry's keys in order
_write_log(f, log_entry, names) == AppendLine(f, JsonDumpsObj(log_entry, names))

AuditHead == <<"timestamp", "action", "namespace", "environment", "resource", "user_id", "ip_address">>

log_variable_create(f, ts, namespace, environment, key, value, user_id, ip_address) ==
  _write_log(f, [timestamp |-> ts, action |-> "CREATE_VARIABLE",
                 namespace |-> namespace, environment |-> environment,
                 resource |-> key, user_id |-> user_id, ip_address |-> ip_address,
                 value_hash |-> _hash_value(value),
                 details |-> [key_length |-> Len(key), value_length |-> Len(value)]],
             AuditHead \o <<"value_hash", "details">>)

log_variable_update(f, ts, namespace, environment, key, old_value, new_value, user_id, ip_address) ==
  _write_log(f, [timestamp |-> ts, action |-> "UPDATE_VARIABLE",
                 namespace |-> namespace, environment |-> environment,
                 resource |-> key, user_id |-> user_id, ip_address |-> ip_address,
                 old_value_hash |-> _hash_value(old_value),
                 new_value_hash |-> _hash_value(new_value),
                 details |-> [value_changed |-> old_value # new_value,
                              old_length |-> Len(old_value),
                              new_length |-> Len(new_value)]],
             AuditHead \o <<"old_value_hash", "new_value_hash", "details">>)

log_variable_delete(f, ts, namespace, environment, key, value, user_id, ip_address) ==
  _write_log(f, [timestamp |-> ts, action |-> "DELETE_VARIABLE",
                 namespace |-> namespace, environment |-> environment,
                 resource |-> key, user_id |-> user_id, ip_address |-> ip_address,
                 value_hash |-> _hash_value(value)],
             AuditHead \o <<"value_hash">>)

log_event(f, ts, action, user_id, resource, namespace, environment, ip_address, details) ==
  _write_log(f, [timestamp |-> ts, action |-> action,
                 namespace |-> namespace, environment |-> environment,
                 resource |-> resource, user_id |-> user_id, ip_address |-> ip_address,
                 details |-> details],
             AuditHead \o <<"details">>)

\* log_entry.get(name) != wanted; a missing item gives None
GetDiffers(log_entry, name, wanted) == name \notin DOMAIN log_entry \/ log_entry[name] # wanted

\* get_logs: the filters of the loop; None and "" both mean no filter
LogFilteredOut(log_entry, namespace, environment, action) ==
  \/ namespace # EmptyStr /\ GetDiffers(log_entry, "namespace", namespace)
  \/ environment # EmptyStr /\ GetDiffers(log_entry, "environment", environment)
  \/ action # "" /\ GetDiffers(log_entry, "action", action)

\* get_logs, the loop over the lines: a line that raises JSONDecodeError is
\* passed over; a filter applied to a value that is no dict raises
\* AttributeError; a matching entry is appended, then the loop breaks once
\* len(logs) >= limit
RECURSIVE GetLogsScan(_, _, _, _, _, _)
GetLogsScan(lines, logs, namespace, environment, action, limit) ==
  IF lines = << >> THEN [raised |-> FALSE, logs |-> logs]
  ELSE IF JsonKind(Head(lines)) = "error"
       THEN GetLogsScan(Tail(lines), logs, namespace, environment, action, limit)
  ELSE IF JsonKind(Head(lines)) = "other" /\ (namespace # EmptyStr \/ environment # EmptyStr \/ action # "")
       THEN [raised |-> TRUE, logs |-> << >>]
  ELSE IF JsonKind(Head(lines)) = "dict" /\ LogFilteredOut(JsonLoadsObj(Head(lines)), namespace, environment, action)
       THEN GetLogsScan(Tail(lines), logs, namespace, environment, action, limit)
  ELSE IF Len(logs) + 1 >= limit
       THEN [raised |-> FALSE, logs |-> Append(logs, JsonLoads(Head(lines)))]
  ELSE GetLogsScan(Tail(lines), Append(logs, JsonLoads(Head(lines))), namespace, environment, action, limit)

\* get_logs on the audit file f; the outer except answers an exception with []
get_logs(f, namespace, environment, action, limit) ==
  IF ~f.exists THEN << >>
  ELSE LET scan == GetLogsScan(f.data, << >>, namespace, environment, action, limit) IN
       IF scan.raised THEN << >> ELSE Reversed(scan.logs)

(* ------------------------------- state -------------------------------- *)
VARIABLES
  blob,       \* blob[path]: the file DATA_DIR/<namespace>/<environment>.enc
  history,    \* history[path]: the file <environment>.history.jsonl
  audit,      \* the file audit_logs/audit.jsonl
  now,        \* the wall clock, datetime.now(timezone.utc), as the number of the
              \* reading: no two readings give the same instant
  uuidCount,  \* how many save_snapshot calls drew their random values
  returned,   \* returned[id]: snapshot id, variables and action of each
              \* save_snapshot call that returned its id, in order of return
  written,    \* written[id]: the mapping passed to the write_vars call on id that
              \* returned last
  lock,       \* lock[path] is the thread that holds the lock of the blob's
              \* path, 0 when it is free or not made yet
  DATA_LOCKS, \* the registry of the locks: DATA_LOCKS[path] is the number of the
              \* Lock object kept for the path; a path without a lock is not in
              \* its domain
  pc,         \* pc[t]: where request thread t is
  loc,        \* loc[t]: the local variables of thread t
  cookie,     \* cookie[c]: the signed session cookie the browser c holds: the
              \* session's items and the time of the signature
  LOGIN_ATTEMPTS, \* LOGIN_ATTEMPTS[identifier]: failed logins and locked_until
  MAX_LOGIN_ATTEMPTS, \* settings.max_login_attempts, read from the environment
              \* at startup
  response,   \* response[c]: how the last request of browser c was answered
  submitted   \* submitted[identifier]: the password submissions of the
              \* identifier the login block handled, oldest first

store == <<blob, history, audit, now, uuidCount, returned, written>>
threads == <<lock, pc, loc>>
web == <<cookie, LOGIN_ATTEMPTS, MAX_LOGIN_ATTEMPTS, response, submitted>>
core == <<store, threads, DATA_LOCKS>>
vars == <<store, threads, DATA_LOCKS, web>>

Ns1 == <<"a">>
Env1 == <<"p">>
Env2 == <<"d">>
Id1 == <<Ns1, Env1>>
Id2 == <<Ns1, Env2>>
Identities == {Id1, Id2}

\* settings.data_dir
DATA_DIR == <<"d">>

\* the path built from the namespace alone
get_env_path_namespace_only(id) == DATA_DIR \o <<"/">> \o id[1] \o <<".", "e", "n", "c">>

\* os.path.join(DATA_DIR, namespace, f"{environment}.enc")
get_env_path(id) == DATA_DIR \o <<"/">> \o id[1] \o <<"/">> \o id[2] \o <<".", "e", "n", "c">>

\* self.data_dir / namespace / f"{environment}.history.jsonl"
_get_history_file(id) == DATA_DIR \o <<"/">> \o id[1] \o <<"/">> \o id[2] \o <<".", "h", "i", "s", "t", "o", "r", "y", ".", "j", "s", "o", "n", "l">>

\* the paths the requests of the model can name
BlobPaths == {get_env_path(id) : id \in Identities}
HistoryPaths == {_get_history_file(id) : id \in Identities}

\* Fernet's initialisation vector, os.urandom(16)
IVs == {0, 1}
SessionUser == "session"
RemoteAddr == "10.0.0.1"

\* the request threads of the server
Threads == {1, 2}
NoRequest == [op |-> "none"]
NoWrite == [called |-> FALSE, data |-> EmptyMap]

(* ------------------------- sessions and logins ------------------------ *)
\* the browsers that send requests; all reach the server from RemoteAddr
Clients == {1, 2}

\* timedelta(minutes=settings.session_timeout_minutes) and
\* timedelta(minutes=settings.lockout_minutes), in units of the clock
SESSION_TIMEOUT == 2
LOCKOUT_DELTA == 2
PERMANENT_SESSION_LIFETIME == SESSION_TIMEOUT

\* the default of settings.max_login_attempts
DefaultMaxLoginAttempts == 5

\* settings.dashboard_password and what a browser may submit instead
DashboardPassword == <<"s", "3">>
WrongPassword == <<"x">>
generate_password_hash(password) == <<"pbkdf2", ":">> \o password
check_password_hash(pwhash, password) == pwhash = generate_password_hash(password)
DASHBOARD_PASSWORD_HASH == generate_password_hash(DashboardPassword)

\* datetime.isoformat and datetime.fromisoformat
isoformat(t) == <<"iso", t>>
fromisoformat(text) == text[2]

\* the keys of the session
LastActiveKey == <<"last_active">>
CsrfTokenKey == <<"csrf_token">>
PermanentKey == <<"_permanent">>
session_key_for_namespace(id) == id[1] \o <<":">> \o <<"a", "u", "t", "h", "e", "d">>
session_key_for(id) == id[1] \o <<":">> \o id[2] \o <<":">> \o <<"a", "u", "t", "h", "e", "d">>

\* identifier = f"{request.remote_addr}:{session_key}", line 381
LoginIdentifier(id) == <<RemoteAddr, ":">> \o session_key_for(id)

\* the browser holds no session cookie
NoCookie == [present |-> FALSE, data |-> EmptyMap, signed_at |-> 0]

\* a session cookie that is accepted whatever its age
open_session_any_age(ck, time) == IF ~ck.present THEN EmptyMap ELSE ck.data

\* the session of a request: the items of the cookie, or an empty session when
\* there is no cookie or its signature is older than PERMANENT_SESSION_LIFETIME
open_session(ck, time) ==
  IF ~ck.present THEN EmptyMap
  ELSE IF time - ck.signed_at > PERMANENT_SESSION_LIFETIME THEN EmptyMap
  ELSE ck.data

\* the cookie sent with the response: a changed session is signed anew, a
\* permanent session with every response, an emptied one deletes the cookie
save_session(ck, session, modified, time) ==
  IF session = EmptyMap THEN (IF modified THEN NoCookie ELSE ck)
  ELSE IF modified \/ PermanentKey \in DOMAIN session
       THEN [present |-> TRUE, data |-> session, signed_at |-> time]
       ELSE ck

mark_authenticated(session, id, time) ==
  DictSet(DictSet(DictSet(session, session_key_for(id), [ts |-> isoformat(time)]),
                  PermanentKey, TRUE),
          LastActiveKey, isoformat(time))

clear_auth(session, id) == DictPop(session, session_key_for(id))

\* before_request
update_last_seen(session, time) ==
  IF LastActiveKey \in DOMAIN session THEN DictSet(session, LastActiveKey, isoformat(time))
  ELSE session

generate_csrf_token(session, fresh) ==
  IF CsrfTokenKey \in DOMAIN session /\ session[CsrfTokenKey] # EmptyStr THEN session
  ELSE DictSet(session, CsrfTokenKey, fresh)

\* validate_csrf returns; NoToken: the request has neither the form field nor
\* the X-CSRF-Token header
NoToken == EmptyStr
validate_csrf(session, token) ==
  /\ CsrfTokenKey \in DOMAIN session
  /\ session[CsrfTokenKey] # EmptyStr
  /\ token # NoToken
  /\ session[CsrfTokenKey] = token

\* "locked_until": None
NoTime == -1

\* is_locked with the comparison the other way round
is_locked_reversed(attempts, identifier, time) ==
  IF identifier \notin DOMAIN attempts THEN [locked |-> FALSE, attempts |-> attempts]
  ELSE IF attempts[identifier].locked_until # NoTime /\ attempts[identifier].locked_until < time
       THEN [locked |-> TRUE, attempts |-> attempts]
       ELSE [locked |-> FALSE, attempts |-> DictPop(attempts, identifier)]

\* is_locked: whether the identifier is locked, and LOGIN_ATTEMPTS afterwards
\* (reset_attempts drops the entry whenever the identifier is not locked now)
is_locked(attempts, identifier, time) ==
  IF identifier \notin DOMAIN attempts THEN [locked |-> FALSE, attempts |-> attempts]
  ELSE IF attempts[identifier].locked_until # NoTime /\ attempts[identifier].locked_until > time
       THEN [locked |-> TRUE, attempts |-> attempts]
       ELSE [locked |-> FALSE, attempts |-> DictPop(attempts, identifier)]

reset_attempts(attempts, identifier) == DictPop(attempts, identifier)

record_failed_attempt(attempts, identifier, time, max) ==
  LET entry == DictGet(attempts, identifier, [fails |-> 0, locked_until |-> NoTime])
      fails == entry.fails + 1
  IN DictSet(attempts, identifier,
             [fails |-> fails,
              locked_until |-> IF fails >= max THEN time + LOCKOUT_DELTA ELSE entry.locked_until])

\* a wrapper that lets the view run when the session holds the marker of any
\* identity
ensure_authenticated_any_identity(session, id, time) ==
  LET record == \E other \in Identities : session_key_for(other) \in DOMAIN session
      expired == /\ LastActiveKey \in DOMAIN session
                 /\ time - fromisoformat(session[LastActiveKey]) > SESSION_TIMEOUT
      checked == IF expired THEN clear_auth(session, id) ELSE session
  IN IF ~record THEN [served |-> FALSE, session |-> checked]
     ELSE [served |-> TRUE, session |-> DictSet(checked, LastActiveKey, isoformat(time))]

\* ensure_authenticated's wrapper after validate_segments: whether the view
\* runs, and the session afterwards.  record is read before the timeout check
ensure_authenticated(session, id, time) ==
  LET record == DictGet(session, session_key_for(id), EmptyMap)
      expired == /\ LastActiveKey \in DOMAIN session
                 /\ time - fromisoformat(session[LastActiveKey]) > SESSION_TIMEOUT
      checked == IF expired THEN clear_auth(session, id) ELSE session
  IN IF record = EmptyMap THEN [served |-> FALSE, session |-> checked]
     ELSE [served |-> TRUE, session |-> DictSet(checked, LastActiveKey, isoformat(time))]

NoResponse == [route |-> "none"]
LoginIdentifiers == {LoginIdentifier(id) : id \in Identities}

\* the server has started with the default settings and no browser has sent a
\* request
InitWebWith(limits) ==
  /\ cookie = [c \in Clients |-> NoCookie]
  /\ LOGIN_ATTEMPTS = EmptyMap
  /\ MAX_LOGIN_ATTEMPTS \in limits
  /\ response = [c \in Clients |-> NoResponse]
  /\ submitted = [i \in LoginIdentifiers |-> << >>]

InitWeb == InitWebWith({DefaultMaxLoginAttempts})

Init ==
  /\ blob = [path \in BlobPaths |-> NoFile]
  /\ history = [path \in HistoryPaths |-> NoFile]
  /\ audit = NoFile
  /\ now = 0
  /\ uuidCount = 0
  /\ returned = [id \in Identities |-> << >>]
  /\ written = [id \in Identities |-> NoWrite]
  /\ lock = [path \in BlobPaths |-> 0]
  /\ DATA_LOCKS = EmptyMap
  /\ InitWeb
  /\ pc = [t \in Threads |-> "idle"]
  /\ loc = [t \in Threads |-> NoRequest]

\* the number of a Lock object made now: no earlier object has it
NewLock(registry) ==
  LET made == {registry[path] : path \in DOMAIN registry} IN
  IF made = {} THEN 1 ELSE 1 + (CHOOSE k \in made : \A o \in made : o <= k)

\* DATA_LOCKS after DATA_LOCKS[path]: defaultdict(Lock) makes and keeps a Lock
\* for a path it does not hold
LockRegistered(registry, path) ==
  IF path \in DOMAIN registry THEN registry ELSE DictSet(registry, path, NewLock(registry))

\* write_vars called from a handler that runs alone
WriteVars(id, data, iv) ==
  /\ blob' = [blob EXCEPT ![get_env_path(id)] = write_vars(data, iv)]
  /\ DATA_LOCKS' = LockRegistered(DATA_LOCKS, get_env_path(id))
  /\ written' = [written EXCEPT ![id] = [called |-> TRUE, data |-> data]]

HistoryRoom(id) == Len(history[_get_history_file(id)].data) < MaxHist
AuditRoom == Len(audit.data) < MaxAudit

\* history_manager.save_snapshot called from a handler that runs alone.  The
\* snapshot id and the IV of its token are fresh random values of one call:
\* both are the number of the draw.  It reads the clock at `now`.
SaveSnapshot(id, variables, action, description) ==
  /\ history' = [history EXCEPT ![_get_history_file(id)] =
       save_snapshot(@, uuidCount, now, variables, SessionUser, action, description, uuidCount)]
  /\ uuidCount' = uuidCount + 1
  /\ returned' = [returned EXCEPT ![id] =
       Append(@, [id |-> uuidCount, variables |-> variables, action |-> action])]

(* ------------------------- handlers, run alone ------------------------ *)
\* POST /add/<namespace>/<environment>
add_variable(id, form_key, form_value, iv_blob) ==
  LET key == Strip(form_key)
      value == Strip(form_value)
      current_vars == read_vars(blob[get_env_path(id)])
      is_update == key \in DOMAIN current_vars
      old_value == DictGet(current_vars, key, EmptyStr)
      variables == DictSet(read_vars(blob[get_env_path(id)]), key, value)
  IN IF key = EmptyStr
     THEN UNCHANGED core
     ELSE /\ HistoryRoom(id) /\ AuditRoom
          /\ UNCHANGED threads
          /\ WriteVars(id, variables, iv_blob)
          /\ SaveSnapshot(id, variables, IF is_update THEN "UPDATE" ELSE "CREATE",
                          <<IF is_update THEN "Updated variable" ELSE "Created variable", key>>)
          /\ audit' = IF is_update
                      THEN log_variable_update(audit, now + 1, id[1], id[2], key, old_value,
                                               value, SessionUser, RemoteAddr)
                      ELSE log_variable_create(audit, now + 1, id[1], id[2], key, value,
                                               SessionUser, RemoteAddr)
          /\ now' = now + 2

\* POST /delete/<namespace>/<environment>/<key>
delete_variable(id, key, iv_blob) ==
  LET current_vars == read_vars(blob[get_env_path(id)])
      value == DictGet(current_vars, key, EmptyStr)
      variables == read_vars(blob[get_env_path(id)])
  IN /\ AuditRoom
     /\ UNCHANGED threads
     /\ IF key \in DOMAIN variables
        THEN /\ HistoryRoom(id)
             /\ WriteVars(id, DictPop(variables, key), iv_blob)
             /\ SaveSnapshot(id, DictPop(variables, key), "DELETE",
                             <<"Deleted variable", key>>)
        ELSE UNCHANGED <<blob, written, history, uuidCount, returned, DATA_LOCKS>>
     /\ audit' = log_variable_delete(audit, IF key \in DOMAIN variables THEN now + 1 ELSE now,
                                     id[1], id[2], key, value, SessionUser, RemoteAddr)
     /\ now' = IF key \in DOMAIN variables THEN now + 2 ELSE now + 1

(* bulk_replace's parse of the pasted payload, given as its lines *)
\* the place of the first "=" of the line, 0 when it has none
FirstEq(line) ==
  IF \E i \in 1..Len(line) : line[i] = "="
  THEN CHOOSE i \in 1..Len(line) : line[i] = "=" /\ \A j \in 1..(i - 1) : line[j] # "="
  ELSE 0

\* one turn of the loop over payload.splitlines()
BulkLine(result, line) ==
  LET eq == FirstEq(line)
      key == Strip(SubSeq(line, 1, eq - 1))
      value == Strip(SubSeq(line, eq + 1, Len(line)))
  IN IF line = << >> \/ (Strip(line) # << >> /\ Strip(line)[1] = "#") THEN result
     ELSE IF eq = 0 THEN result
     ELSE IF ~KEY_PATTERN(key) THEN result
     ELSE DictSet(result, key, value)

RECURSIVE BulkParse(_, _)
BulkParse(result, lines) ==
  IF lines = << >> THEN result
  ELSE BulkParse(BulkLine(result, Head(lines)), Tail(lines))

\* payload.strip() is empty
BulkBlank(lines) == \A i \in 1..Len(lines) : Strip(lines[i]) = << >>

\* POST /bulk/<namespace>/<environment>
bulk_replace(id, lines, iv_blob) ==
  LET result == BulkParse(EmptyMap, lines) IN
  IF BulkBlank(lines) \/ result = EmptyMap
  THEN UNCHANGED core
  ELSE /\ HistoryRoom(id)
       /\ UNCHANGED threads
       /\ WriteVars(id, result, iv_blob)
       /\ SaveSnapshot(id, result, "BULK_REPLACE",
                       <<"Bulk replaced variables", Cardinality(DOMAIN result)>>)
       /\ now' = now + 1
       /\ UNCHANGED audit

\* GET /api/v1/<namespace>/<environment> of an authorized caller, lines 623-627
api_get(f) ==
  LET variables == read_vars(f) IN
  [status |-> IF KeyError \in DOMAIN variables THEN 500 ELSE 200, body |-> variables]

\* the loop of api_environment that keeps the payload's items of a matching key
ApiFiltered(payload) == [k \in {x \in DOMAIN payload : KEY_PATTERN(x)} |-> payload[k]]

\* PUT and PATCH /api/v1/<namespace>/<environment>
api_environment(id, method, authorized, is_dict, payload, iv_blob) ==
  IF ~authorized \/ ~is_dict
  THEN UNCHANGED core
  ELSE /\ IF method = "PUT"
          THEN WriteVars(id, ApiFiltered(payload), iv_blob)
          ELSE WriteVars(id, DictUpdate(read_vars(blob[get_env_path(id)]), ApiFiltered(payload)), iv_blob)
       /\ UNCHANGED <<history, audit, now, uuidCount, returned, threads>>

\* POST /rollback/<namespace>/<environment>/<snapshot_id>
rollback_version(id, snapshot_id, iv_blob) ==
  LET snapshot == get_snapshot(history[_get_history_file(id)], snapshot_id) IN
  IF ~snapshot.found
  THEN UNCHANGED core
  ELSE /\ HistoryRoom(id) /\ AuditRoom
       /\ UNCHANGED threads
       /\ WriteVars(id, snapshot.entry["variables"], iv_blob)
       /\ SaveSnapshot(id, snapshot.entry["variables"], "ROLLBACK",
                       <<"Rolled back to version from", snapshot.entry["timestamp"]>>)
       /\ audit' = log_variable_update(audit, now + 1, id[1], id[2], StrALL, StrVARIOUS,
                                       StrROLLBACK, SessionUser, RemoteAddr)
       /\ now' = now + 2

\* templates_config.json, a file of the deployment
GENERATE == <<"__GENERATE__">>
TemplateBasic == <<"b">>
Templates == [t \in {TemplateBasic} |-> [name |-> "Basic", variables |-> [k \in {KeyB} |-> GENERATE]]]

\* POST /templates/<namespace>/<environment>/apply; token: secrets.token_urlsafe(32)
apply_template(id, template_key, token, iv_blob) ==
  IF template_key \notin DOMAIN Templates
  THEN UNCHANGED core
  ELSE LET template == Templates[template_key]
           new_vars == [k \in DOMAIN template.variables |->
                          IF template.variables[k] = GENERATE THEN token
                          ELSE template.variables[k]]
           read == read_vars(blob[get_env_path(id)])
           current_vars == DictUpdate(IF KeyError \in DOMAIN read THEN EmptyMap ELSE read,
                                      new_vars)
       IN /\ HistoryRoom(id) /\ AuditRoom
          /\ UNCHANGED threads
          /\ WriteVars(id, current_vars, iv_blob)
          /\ SaveSnapshot(id, current_vars, "APPLY_TEMPLATE",
                          <<"Applied template", template.name>>)
          /\ audit' = log_event(audit, now + 1, "APPLY_TEMPLATE", SessionUser, template_key,
                                id[1], id[2], RemoteAddr,
                                [template_name |-> template.name,
                                 vars_count |-> Cardinality(DOMAIN new_vars)])
          /\ now' = now + 2

(* ----------------------- requests the model sends --------------------- *)
SpecIds == {Id1}
FormKeys == {<<" ", "A">>, KeyDash, EmptyStr}
FormValues == {Val1, <<"2", " ">>}
UrlKeys == {KeyA, KeyB}
BulkA1 == << <<"#">>, <<"A", " ", "=", "1">> >>
BulkNone == << <<"-", "A", "=", "1">>, <<"A">> >>
BulkPayloads == {BulkA1, BulkNone, << >>}
ApiPayloads == {[k \in {KeyA} |-> Val2], [k \in {KeyNL, KeyDash} |-> Val1]}
TemplateKeys == {TemplateBasic, <<"x">>}
TokenValues == {Val2}
SnapshotIds == 0..MaxHist

Next ==
  \/ \E id \in SpecIds, k \in FormKeys, v \in FormValues, i1 \in IVs :
       add_variable(id, k, v, i1) /\ UNCHANGED web
  \/ \E id \in SpecIds, k \in UrlKeys, i1 \in IVs :
       delete_variable(id, k, i1) /\ UNCHANGED web
  \/ \E id \in SpecIds, p \in BulkPayloads, i1 \in IVs :
       bulk_replace(id, p, i1) /\ UNCHANGED web
  \/ \E id \in SpecIds, m \in {"PUT", "PATCH"}, a \in BOOLEAN, d \in BOOLEAN, p \in ApiPayloads, i1 \in IVs :
       api_environment(id, m, a, d, p, i1) /\ UNCHANGED web
  \/ \E id \in SpecIds, sid \in SnapshotIds, i1 \in IVs :
       rollback_version(id, sid, i1) /\ UNCHANGED web
  \/ \E id \in SpecIds, t \in TemplateKeys, tok \in TokenValues, i1 \in IVs :
       apply_template(id, t, tok, i1) /\ UNCHANGED web

Spec == Init /\ [][Next]_vars

(* ======================= claims, handlers run alone =================== *)
AllKeysMatch(d) == \A k \in DOMAIN d : KEY_PATTERN(k)

IsPrefix(a, b) == Len(a) <= Len(b) /\ a = SubSeq(b, 1, Len(a))

\* C1: for a mapping M whose keys all match the key pattern, read_vars after
\* write_vars(identity, M), with no write in between, returns exactly M.
C1_RoundTrip ==
  \A id \in Identities :
    (written[id].called /\ AllKeysMatch(written[id].data))
      => read_vars(blob[get_env_path(id)]) = written[id].data

C1_Witness ==
  /\ written[Id1].called
  /\ AllKeysMatch(written[Id1].data)
  /\ Cardinality(DOMAIN written[Id1].data) = 2
  /\ KeyNL \in DOMAIN written[Id1].data

\* C4, as claimed: every key of every persisted current state is a Variable
\* Key, one word character followed by at most 127 characters of letters,
\* digits, "_", "." and "-".
C4_PersistedKeysWellFormed ==
  \A id \in Identities :
    \A k \in DOMAIN read_vars(blob[get_env_path(id)]) : KeyBodyMatch(k)

\* C5: the history log of an identity only grows by appending: over every
\* step its lines before are a prefix of its lines after, and the file stays.
C5_HistoryAppendOnly ==
  [][\A id \in Identities :
       /\ IsPrefix(history[_get_history_file(id)].data, history'[_get_history_file(id)].data)
       /\ history[_get_history_file(id)].exists => history'[_get_history_file(id)].exists]_vars

C5_Witness == Len(history[_get_history_file(Id1)].data) = 2 /\ Len(audit.data) = 2

LimitValues == 0..(MaxHist + 1)
Min(a, b) == IF a < b THEN a ELSE b

\* C6: after N save_snapshot calls returned their ids for one identity,
\* get_history(identity, limit) has min(N, limit) entries: those of the calls
\* that returned last, the newest first.
C6_HistoryNewestFirst ==
  \A id \in Identities, limit \in LimitValues :
    LET n == Len(returned[id])
        got == get_history(history[_get_history_file(id)], limit)
    IN /\ Len(got) = Min(n, limit)
       /\ \A j \in 1..Len(got) : got[j]["id"] = returned[id][n + 1 - j].id

C6_Witness ==
  /\ Len(returned[Id1]) = 2
  /\ Len(get_history(history[_get_history_file(Id1)], 1)) = 1

\* C7: get_snapshot(identity, id) of an id some save_snapshot(identity, V, ...)
\* returned gives a snapshot whose variables are exactly V; of an id no call
\* returned for the identity it gives not-found.
C7_SnapshotExact ==
  \A id \in Identities :
    /\ \A i \in 1..Len(returned[id]) :
         LET got == get_snapshot(history[_get_history_file(id)], returned[id][i].id) IN
         /\ got.found
         /\ got.entry["variables"] = returned[id][i].variables
    /\ \A sid \in 0..(MaxHist + 1) :
         (\A i \in 1..Len(returned[id]) : returned[id][i].id # sid)
           => ~get_snapshot(history[_get_history_file(id)], sid).found

C7_Witness ==
  /\ Len(returned[Id1]) = 2
  /\ KeyDash \in DOMAIN returned[Id1][1].variables
  /\ returned[Id1][1].variables # returned[Id1][2].variables

CurrentStateChanges(id) == read_vars(blob[get_env_path(id)]) # read_vars(blob'[get_env_path(id)])

\* C9, as claimed: every step that changes the current state of an identity
\* appends exactly one snapshot to that identity's history log.
C9_EveryChangeInHistory ==
  [][\A id \in Identities :
       CurrentStateChanges(id)
         => Len(history'[_get_history_file(id)].data) = Len(history[_get_history_file(id)].data) + 1]_vars

\* C10, as claimed: every step that changes the current state of an identity
\* appends an audit event of that identity to the audit log.
C10_EveryChangeAudited ==
  [][\A id \in Identities :
       CurrentStateChanges(id)
         => /\ Len(audit'.data) = Len(audit.data) + 1
            /\ LET event == JsonLoadsObj(audit'.data[Len(audit'.data)]) IN
               event["namespace"] = id[1] /\ event["environment"] = id[2]]_vars

LastLine(f) == JsonLoadsObj(f.data[Len(f.data)])

\* C11, as claimed: right after a mutating operation that ran alone, the
\* variables of the snapshot it appended equal read_vars of the identity, also
\* when a submitted key fails the key pattern.
C11_SnapshotIsCurrentState ==
  [][\A id \in Identities :
       Len(history'[_get_history_file(id)].data) = Len(history[_get_history_file(id)].data) + 1
         => _decrypt_data(LastLine(history'[_get_history_file(id)])["variables"])
              = read_vars(blob'[get_env_path(id)])]_vars

\* C12, as claimed: rollback_version to an existing snapshot S makes the
\* current state equal to S's variables, appends one ROLLBACK snapshot of
\* those variables and one audit event and keeps the earlier history lines;
\* with an unknown id it changes neither the current state nor the history.
C12_RollbackRestores ==
  [][\A id \in Identities, snapshot_id \in SnapshotIds, iv \in IVs :
       rollback_version(id, snapshot_id, iv)
         => LET S == get_snapshot(history[_get_history_file(id)], snapshot_id)
                after == history'[_get_history_file(id)]
            IN IF S.found
               THEN /\ read_vars(blob'[get_env_path(id)]) = S.entry["variables"]
                    /\ Len(after.data) = Len(history[_get_history_file(id)].data) + 1
                    /\ IsPrefix(history[_get_history_file(id)].data, after.data)
                    /\ LastLine(after)["action"] = "ROLLBACK"
                    /\ _decrypt_data(LastLine(after)["variables"]) = S.entry["variables"]
                    /\ Len(audit'.data) = Len(audit.data) + 1
               ELSE UNCHANGED <<blob, history>>]_vars


(* ------------------------------ get_logs ------------------------------ *)
NamespaceFilters == {EmptyStr, Ns1, <<"b">>}
EnvironmentFilters == {EmptyStr, Env1, Env2}
ActionFilters == {"", "CREATE_VARIABLE", "UPDATE_VARIABLE"}
LogLimits == 0..(MaxAudit + 1)

\* the events of the file that pass every given filter, in file order
MatchingEvents(f, namespace, environment, action) ==
  SelectSeq([i \in 1..Len(f.data) |-> JsonLoadsObj(f.data[i])],
            LAMBDA e : /\ namespace # EmptyStr => e["namespace"] = namespace
                       /\ environment # EmptyStr => e["environment"] = environment
                       /\ action # "" => e["action"] = action)

\* C15, as claimed: get_logs returns only events that pass every given
\* filter, in the reverse of their order in the file, and never more than
\* limit of them.
C15_LogsFilteredNewestFirstAtMostLimit ==
  \A namespace \in NamespaceFilters, environment \in EnvironmentFilters, action \in ActionFilters, limit \in LogLimits :
    LET got == get_logs(audit, namespace, environment, action, limit)
        all == MatchingEvents(audit, namespace, environment, action)
    IN /\ \A j \in 1..Len(got) : \E i \in 1..Len(all) : all[i] = got[j]
       /\ \A j \in 1..(Len(got) - 1) : got[j]["timestamp"] > got[j + 1]["timestamp"]
       /\ Len(got) <= limit

\* C16, as claimed: when more than limit events pass the filters, get_logs
\* returns the first limit of them counted from the start of the file, in
\* reversed order, and none of the later ones.
C16_LogsOldestMatchesKept ==
  \A namespace \in NamespaceFilters, environment \in EnvironmentFilters, action \in ActionFilters, limit \in LogLimits :
    LET all == MatchingEvents(audit, namespace, environment, action) IN
    Len(all) > limit
      => get_logs(audit, namespace, environment, action, limit) = Reversed(Take(all, limit))

(* ================= the blob changed on disk between requests ========== *)
(* read_vars decrypts whatever bytes the file holds.  Bytes that write_vars  *)
(* did not put there (a damaged disk, a restored backup of another key, an   *)
(* edit by hand) are the case of its InvalidToken branch.                    *)
TamperKinds == {"truncate", "flip", "empty"}

\* the bytes of a token after the change
Tampered(bytes, kind) ==
  CASE kind = "truncate" -> SubSeq(bytes, 1, Len(bytes) - 1)
    [] kind = "flip" -> <<[iv |-> bytes[1].iv + 2]>> \o Tail(bytes)
    [] OTHER -> << >>

\* the file of an identity, intact so far, is changed on disk
Tamper(id, kind) ==
  /\ blob[get_env_path(id)].exists
  /\ FernetDecrypt(blob[get_env_path(id)].data).ok
  /\ blob' = [blob EXCEPT ![get_env_path(id)].data = Tampered(@, kind)]
  /\ UNCHANGED <<history, audit, now, uuidCount, returned, written, threads, DATA_LOCKS, web>>

NextDisk ==
  \/ \E id \in SpecIds, i1 \in IVs : add_variable(id, KeyA, Val1, i1) /\ UNCHANGED web
  \/ \E id \in SpecIds, i1 \in IVs : delete_variable(id, KeyA, i1) /\ UNCHANGED web
  \/ \E id \in SpecIds, m \in {"PUT", "PATCH"}, p \in ApiPayloads, i1 \in IVs :
       api_environment(id, m, TRUE, TRUE, p, i1) /\ UNCHANGED web
  \/ \E id \in SpecIds, tok \in TokenValues, i1 \in IVs :
       apply_template(id, TemplateBasic, tok, i1) /\ UNCHANGED web
  \/ \E id \in SpecIds, kind \in TamperKinds : Tamper(id, kind)

SpecDisk == Init /\ [][NextDisk]_vars

(* --------------------- the audit log and secret values ---------------- *)
\* values a request may carry; "1" and "A" have one fingerprint and one length
SecretValues == {Val1, KeyA, Val2}

ValueActions == {"CREATE_VARIABLE", "UPDATE_VARIABLE", "DELETE_VARIABLE"}

\* the value of the item called name of a JSON line
Field(line, name) == line[CHOOSE k \in 1..Len(line) : line[k][1] = name][2]

\* the line the logger writes for the event of a line when the values of the
\* request are old_value and value
AuditLineOf(line, old_value, value) ==
  CASE Field(line, "action") = "CREATE_VARIABLE" ->
         log_variable_create(NoFile, Field(line, "timestamp"), Field(line, "namespace"), Field(line, "environment"), Field(line, "resource"), value, Field(line, "user_id"), Field(line, "ip_address")).data[1]
    [] Field(line, "action") = "UPDATE_VARIABLE" ->
         log_variable_update(NoFile, Field(line, "timestamp"), Field(line, "namespace"), Field(line, "environment"), Field(line, "resource"), old_value, value, Field(line, "user_id"), Field(line, "ip_address")).data[1]
    [] OTHER ->
         log_variable_delete(NoFile, Field(line, "timestamp"), Field(line, "namespace"), Field(line, "environment"), Field(line, "resource"), value, Field(line, "user_id"), Field(line, "ip_address")).data[1]

SameFingerprint(a, b) == _hash_value(a) = _hash_value(b) /\ Len(a) = Len(b)

\* the pairs of values that a record of fingerprints and lengths cannot tell apart
Twins == {p \in SecretValues \X SecretValues : SameFingerprint(p[1], p[2])}

HashFields == {"value_hash", "old_value_hash", "new_value_hash"}

\* the requests that write audit records of variable values
NextAudit ==
  \/ \E id \in SpecIds, k \in FormKeys, v \in FormValues, i1 \in IVs : add_variable(id, k, v, i1) /\ UNCHANGED web
  \/ \E id \in SpecIds, k \in UrlKeys, i1 \in IVs : delete_variable(id, k, i1) /\ UNCHANGED web
  \/ \E id \in SpecIds, sid \in SnapshotIds, i1 \in IVs : rollback_version(id, sid, i1) /\ UNCHANGED web
  \/ \E id \in SpecIds, tok \in TokenValues, i1 \in IVs : apply_template(id, TemplateBasic, tok, i1) /\ UNCHANGED web

SpecAudit == Init /\ [][NextAudit]_vars

\* C14, as claimed: a second run whose secret values have the fingerprints and
\* lengths of the first run's writes the same audit lines: whatever values
\* could have produced a line, values of equal fingerprints and lengths
\* produce that line too.
C14_AuditDependsOnFingerprintsOnly ==
  \A i \in 1..Len(audit.data) :
    Field(audit.data[i], "action") \in ValueActions
      => \A o \in SecretValues, v \in SecretValues :
           AuditLineOf(audit.data[i], o, v) = audit.data[i]
             => \A o2 \in SecretValues, v2 \in SecretValues :
                  (<<o, o2>> \in Twins /\ <<v, v2>> \in Twins)
                    => AuditLineOf(audit.data[i], o2, v2) = audit.data[i]

\* C14, amended: every hash field of an audit record is sixteen characters
\* long, and a second run whose secret values have the fingerprints and lengths
\* of the first run's, and whose updates change a value exactly when the first
\* run's do, writes the same audit lines.
C14_AuditDependsOnFingerprintsAndChange ==
  \A i \in 1..Len(audit.data) :
    /\ \A k \in 1..Len(audit.data[i]) :
         audit.data[i][k][1] \in HashFields => Len(audit.data[i][k][2]) = 16
    /\ Field(audit.data[i], "action") \in ValueActions
         => \A o \in SecretValues, v \in SecretValues :
              AuditLineOf(audit.data[i], o, v) = audit.data[i]
                => \A o2 \in SecretValues, v2 \in SecretValues :
                     (/\ <<o, o2>> \in Twins
                      /\ <<v, v2>> \in Twins
                      /\ Field(audit.data[i], "action") = "UPDATE_VARIABLE" => ((o = v) <=> (o2 = v2)))
                       => AuditLineOf(audit.data[i], o2, v2) = audit.data[i]

C14_Witness ==
  /\ Len(audit.data) = 2
  /\ Field(audit.data[1], "action") = "CREATE_VARIABLE"
  /\ AuditLineOf(audit.data[1], Val1, Val1) = audit.data[1]
  /\ AuditLineOf(audit.data[1], Val1, KeyA) = audit.data[1]
  /\ Field(audit.data[2], "action") = "UPDATE_VARIABLE"
  /\ ~Field(audit.data[2], "details").value_changed

\* C13: read_vars of an identity whose blob exists and fails authentication
\* returns the decryption-failure marker, a result different from the empty
\* mapping it returns for an identity with no blob.
C13_DecryptFailureDistinct ==
  \A id \in Identities :
    LET f == blob[get_env_path(id)] IN
    (f.exists /\ ~FernetDecrypt(f.data).ok)
      => /\ read_vars(f) = ErrorMap
         /\ read_vars(f) # read_vars(NoFile)

C13_Witness ==
  /\ blob[get_env_path(Id1)].exists
  /\ Len(blob[get_env_path(Id1)].data) >= 2
  /\ ~FernetDecrypt(blob[get_env_path(Id1)].data).ok
  /\ ~blob[get_env_path(Id2)].exists

(* ===================== request threads, step by step ================== *)
(* Each thread serves one request.  A step is one access to a file, to a    *)
(* lock, to the clock or to the random source, with the local computation   *)
(* that follows it.  loc[t].ret is where read_vars or write_vars returns.   *)

Local(k, v, d) ==
  [op |-> "none", id |-> Id1, key |-> k, value |-> v, data |-> d, ret |-> "done",
   result |-> EmptyMap, buf |-> << >>, bytes |-> << >>, is_update |-> FALSE,
   old_value |-> EmptyStr, line |-> << >>, snapshot_id |-> NoSnapshotId, ts |-> 0]

Goto(t, label) == pc' = [pc EXCEPT ![t] = label]

\* a lock that never makes a caller wait, as a Lock made anew for each call
LockFreeAlways(id) == TRUE

\* one Lock shared by every path
LockFreeGlobal(id) == \A path \in BlobPaths : lock[path] = 0

\* a threading.Lock is free for `with` to take
LockFree(id) == lock[get_env_path(id)] = 0

\* the request arrives: add_variable (lines 436-444), api_environment PATCH
\* (lines 633-643) or a caller's write_vars
StartAdd(t, form_key, form_value) ==
  /\ pc[t] = "idle"
  /\ loc' = [loc EXCEPT ![t] =
       [Local(Strip(form_key), Strip(form_value), EmptyMap) EXCEPT !.op = "add_variable",
                                                                   !.ret = "add_read1"]]
  /\ Goto(t, IF Strip(form_key) = EmptyStr THEN "done" ELSE "rv_exists")
  /\ UNCHANGED <<store, lock, DATA_LOCKS, web>>

StartPatch(t, key, value) ==
  /\ pc[t] = "idle"
  /\ loc' = [loc EXCEPT ![t] =
       [Local(key, value, ApiFiltered([k \in {key} |-> value])) EXCEPT !.op = "api_patch",
                                                                        !.ret = "patch_merge"]]
  /\ Goto(t, "rv_exists")
  /\ UNCHANGED <<store, lock, DATA_LOCKS, web>>

StartWrite(t, data) ==
  /\ pc[t] = "idle"
  /\ loc' = [loc EXCEPT ![t] = [Local(EmptyStr, EmptyStr, data) EXCEPT !.op = "write_vars"]]
  /\ Goto(t, "wv_encrypt")
  /\ UNCHANGED <<store, lock, DATA_LOCKS, web>>

\* read_vars, line 175: os.path.exists(path)
rv_exists(t) ==
  /\ pc[t] = "rv_exists"
  /\ IF blob[get_env_path(loc[t].id)].exists
     THEN Goto(t, "rv_lock") /\ UNCHANGED loc
     ELSE Goto(t, loc[t].ret) /\ loc' = [loc EXCEPT ![t].result = EmptyMap]
  /\ UNCHANGED <<store, lock, DATA_LOCKS, web>>

\* read_vars, line 177: with _lock_for(path)
rv_lock(t) ==
  /\ pc[t] = "rv_lock"
  /\ LockFree(loc[t].id)
  /\ lock' = [lock EXCEPT ![get_env_path(loc[t].id)] = t]
  /\ DATA_LOCKS' = LockRegistered(DATA_LOCKS, get_env_path(loc[t].id))
  /\ UNCHANGED web
  /\ Goto(t, "rv_read")
  /\ UNCHANGED <<store, loc>>

\* read_vars, lines 178-179: open(path, "rb") and handle.read()
rv_read(t) ==
  /\ pc[t] = "rv_read"
  /\ loc' = [loc EXCEPT ![t].buf = blob[get_env_path(loc[t].id)].data]
  /\ Goto(t, "rv_unlock")
  /\ UNCHANGED <<store, lock, DATA_LOCKS, web>>

\* read_vars, the end of the with block, then lines 180-190
rv_unlock(t) ==
  /\ pc[t] = "rv_unlock"
  /\ lock' = [lock EXCEPT ![get_env_path(loc[t].id)] = 0]
  /\ UNCHANGED <<DATA_LOCKS, web>>
  /\ loc' = [loc EXCEPT ![t].result = DecodeVars(loc[t].buf)]
  /\ Goto(t, loc[t].ret)
  /\ UNCHANGED store

\* add_variable, lines 444-448: the first read_vars returned, the second starts
add_read1(t) ==
  /\ pc[t] = "add_read1"
  /\ loc' = [loc EXCEPT ![t].is_update = loc[t].key \in DOMAIN loc[t].result,
                        ![t].old_value = DictGet(loc[t].result, loc[t].key, EmptyStr),
                        ![t].ret = "add_read2"]
  /\ Goto(t, "rv_exists")
  /\ UNCHANGED <<store, lock, DATA_LOCKS, web>>

\* add_variable, lines 448-450: variables[key] = value, write_vars starts
add_read2(t) ==
  /\ pc[t] = "add_read2"
  /\ loc' = [loc EXCEPT ![t].data = DictSet(loc[t].result, loc[t].key, loc[t].value),
                        ![t].ret = "ss_build"]
  /\ Goto(t, "wv_encrypt")
  /\ UNCHANGED <<store, lock, DATA_LOCKS, web>>

\* api_environment, lines 643-645: existing.update(filtered), write_vars starts
patch_merge(t) ==
  /\ pc[t] = "patch_merge"
  /\ loc' = [loc EXCEPT ![t].data = DictUpdate(loc[t].result, loc[t].data),
                        ![t].ret = "done"]
  /\ Goto(t, "wv_encrypt")
  /\ UNCHANGED <<store, lock, DATA_LOCKS, web>>

\* write_vars, lines 194-198: sanitize, dump, encrypt
wv_encrypt(t, iv) ==
  /\ pc[t] = "wv_encrypt"
  /\ loc' = [loc EXCEPT ![t].bytes = WriteVarsBytes(loc[t].data, iv)]
  /\ Goto(t, "wv_lock")
  /\ UNCHANGED <<store, lock, DATA_LOCKS, web>>

\* write_vars, line 199: with _lock_for(path)
wv_lock(t) ==
  /\ pc[t] = "wv_lock"
  /\ LockFree(loc[t].id)
  /\ lock' = [lock EXCEPT ![get_env_path(loc[t].id)] = t]
  /\ DATA_LOCKS' = LockRegistered(DATA_LOCKS, get_env_path(loc[t].id))
  /\ UNCHANGED web
  /\ Goto(t, "wv_open")
  /\ UNCHANGED <<store, loc>>

\* write_vars, line 200: open(path, "wb") creates the file or cuts it to nothing
wv_open(t) ==
  /\ pc[t] = "wv_open"
  /\ blob' = [blob EXCEPT ![get_env_path(loc[t].id)] = [exists |-> TRUE, data |-> << >>]]
  /\ Goto(t, "wv_write")
  /\ UNCHANGED <<history, audit, now, uuidCount, returned, written, lock, DATA_LOCKS, web, loc>>

\* bytes put at offset 0 of a file that holds old
WriteAtStart(old, bytes) == bytes \o SubSeq(old, Len(bytes) + 1, Len(old))

\* write_vars, line 201: handle.write(encrypted_data), flushed as the file closes
wv_write(t) ==
  /\ pc[t] = "wv_write"
  /\ blob' = [blob EXCEPT ![get_env_path(loc[t].id)].data = WriteAtStart(@, loc[t].bytes)]
  /\ Goto(t, "wv_unlock")
  /\ UNCHANGED <<history, audit, now, uuidCount, returned, written, lock, DATA_LOCKS, web, loc>>

\* write_vars, the end of the with block: the call returns
wv_unlock(t) ==
  /\ pc[t] = "wv_unlock"
  /\ lock' = [lock EXCEPT ![get_env_path(loc[t].id)] = 0]
  /\ UNCHANGED <<DATA_LOCKS, web>>
  /\ written' = [written EXCEPT ![loc[t].id] = [called |-> TRUE, data |-> loc[t].data]]
  /\ Goto(t, loc[t].ret)
  /\ UNCHANGED <<blob, history, audit, now, uuidCount, returned, loc>>

\* save_snapshot, lines 49-58: uuid4(), the clock, the encrypted variables
ss_build(t) ==
  /\ pc[t] = "ss_build"
  /\ loc' = [loc EXCEPT ![t].line =
       SnapshotLine(uuidCount, now, loc[t].data, SessionUser,
                    IF loc[t].is_update THEN "UPDATE" ELSE "CREATE",
                    <<IF loc[t].is_update THEN "Updated variable" ELSE "Created variable",
                      loc[t].key>>, uuidCount)]
  /\ uuidCount' = uuidCount + 1
  /\ now' = now + 1
  /\ Goto(t, "ss_append")
  /\ UNCHANGED <<blob, history, audit, returned, written, lock, DATA_LOCKS, web>>

\* save_snapshot, lines 60-65: the line is appended and the id returned
ss_append(t) ==
  /\ pc[t] = "ss_append"
  /\ history' = [history EXCEPT ![_get_history_file(loc[t].id)] = AppendLine(@, loc[t].line)]
  /\ returned' = [returned EXCEPT ![loc[t].id] =
       Append(@, [id |-> JsonLoadsObj(loc[t].line)["id"], variables |-> loc[t].data,
                  action |-> JsonLoadsObj(loc[t].line)["action"]])]
  /\ loc' = [loc EXCEPT ![t].snapshot_id = JsonLoadsObj(loc[t].line)["id"]]
  /\ Goto(t, "al_build")
  /\ UNCHANGED <<blob, audit, now, uuidCount, written, lock, DATA_LOCKS, web>>

\* log_variable_update / log_variable_create: _get_timestamp(), lines 52 and 79
al_build(t) ==
  /\ pc[t] = "al_build"
  /\ loc' = [loc EXCEPT ![t].ts = now]
  /\ now' = now + 1
  /\ Goto(t, "al_append")
  /\ UNCHANGED <<blob, history, audit, uuidCount, returned, written, lock, DATA_LOCKS, web>>

\* _write_log, lines 36-37
al_append(t) ==
  /\ pc[t] = "al_append"
  /\ audit' = IF loc[t].is_update
              THEN log_variable_update(audit, loc[t].ts, loc[t].id[1], loc[t].id[2],
                                       loc[t].key, loc[t].old_value, loc[t].value,
                                       SessionUser, RemoteAddr)
              ELSE log_variable_create(audit, loc[t].ts, loc[t].id[1], loc[t].id[2],
                                       loc[t].key, loc[t].value, SessionUser, RemoteAddr)
  /\ Goto(t, "done")
  /\ UNCHANGED <<blob, history, now, uuidCount, returned, written, lock, DATA_LOCKS, web, loc>>

ConcKeys == {KeyA, KeyB}
ConcValues == {Val1}
ConcMaps == {[k \in {KeyA} |-> Val1], [k \in {KeyA, KeyB, KeyDash} |-> Val2]}

NextConc ==
  \/ \E t \in Threads, k \in ConcKeys, v \in ConcValues : StartAdd(t, k, v)
  \/ \E t \in Threads, k \in ConcKeys, v \in ConcValues : StartPatch(t, k, v)
  \/ \E t \in Threads, d \in ConcMaps : StartWrite(t, d)
  \/ \E t \in Threads : rv_exists(t)
  \/ \E t \in Threads : rv_lock(t)
  \/ \E t \in Threads : rv_read(t)
  \/ \E t \in Threads : rv_unlock(t)
  \/ \E t \in Threads : add_read1(t)
  \/ \E t \in Threads : add_read2(t)
  \/ \E t \in Threads : patch_merge(t)
  \/ \E t \in Threads, iv \in IVs : wv_encrypt(t, iv)
  \/ \E t \in Threads : wv_lock(t)
  \/ \E t \in Threads : wv_open(t)
  \/ \E t \in Threads : wv_write(t)
  \/ \E t \in Threads : wv_unlock(t)
  \/ \E t \in Threads : ss_build(t)
  \/ \E t \in Threads : ss_append(t)
  \/ \E t \in Threads : al_build(t)
  \/ \E t \in Threads : al_append(t)

SpecConc == Init /\ [][NextConc]_vars

(* ========================= claims, request threads ==================== *)
AllDone == \A t \in Threads : pc[t] = "done"

\* C2: when every thread ran write_vars on the same identity and all have
\* returned, read_vars returns the sanitized mapping of one of them: no
\* mixture, no decryption failure.
C2_OneOfTheWrites ==
  (AllDone /\ \A t \in Threads : loc[t].op = "write_vars")
    => /\ \E t \in Threads : read_vars(blob[get_env_path(Id1)]) = Sanitize(loc[t].data)
       /\ read_vars(blob[get_env_path(Id1)]) # ErrorMap
       /\ read_vars(blob[get_env_path(Id1)]) # EmptyMap

C2_Witness ==
  /\ AllDone
  /\ \A t \in Threads : loc[t].op = "write_vars"
  /\ loc[1].data # loc[2].data
  /\ read_vars(blob[get_env_path(Id1)]) = Sanitize(loc[1].data)

SetOps == {"add_variable", "api_patch"}

\* C3, as claimed: when two set-variable requests with distinct keys ran at
\* the same time on one identity and both are done, the current state holds
\* both keys with the values given.
C3_NoLostUpdate ==
  (AllDone /\ (\A t \in Threads : loc[t].op \in SetOps) /\ loc[1].key # loc[2].key)
    => \A t \in Threads :
         /\ loc[t].key \in DOMAIN read_vars(blob[get_env_path(Id1)])
         /\ read_vars(blob[get_env_path(Id1)])[loc[t].key] = loc[t].value

\* C8, as claimed: the timestamps of consecutive lines of a history log never
\* decrease.
C8_TimestampsInLineOrder ==
  \A id \in Identities :
    \A i \in 1..(Len(history[_get_history_file(id)].data) - 1) :
      JsonLoadsObj(history[_get_history_file(id)].data[i])["timestamp"]
        <= JsonLoadsObj(history[_get_history_file(id)].data[i + 1])["timestamp"]

\* C17: in every interleaving of write_vars and read_vars on one identity,
\* with the write as a truncation followed by the content write, the bytes a
\* read_vars took from the file are the complete ciphertext of one write, and
\* no read_vars returns the decryption-failure marker.
C17_NoHalfWrittenBlob ==
  \A t \in Threads :
    /\ pc[t] = "rv_unlock"
         => /\ FernetDecrypt(loc[t].buf).ok
            /\ \E w \in Threads : loc[w].bytes # << >> /\ loc[t].buf = loc[w].bytes
    /\ loc[t].op # "none" => loc[t].result # ErrorMap

\* the second read of an add_variable sees the whole blob that the other
\* thread wrote after the first read found none
C17_Witness ==
  /\ pc[2] = "rv_unlock"
  /\ loc[2].op = "add_variable"
  /\ loc[2].ret = "add_read2"
  /\ ~loc[2].is_update
  /\ loc[1].op = "write_vars"
  /\ loc[2].buf = loc[1].bytes
  /\ loc[2].key \in DOMAIN DecodeVars(loc[2].buf)

(* ============ read_vars and write_vars on two identities, with I/O ===== *)
(* ============ errors inside the with block                         ===== *)
\* a mapping an earlier run of the server left on disk
StoredMap == [k \in {KeyA} |-> Val1]

\* the server starts with each blob absent or written by an earlier run
InitLocks ==
  /\ blob \in [BlobPaths -> {NoFile, write_vars(StoredMap, 0)}]
  /\ history = [path \in HistoryPaths |-> NoFile]
  /\ audit = NoFile
  /\ now = 0
  /\ uuidCount = 0
  /\ returned = [id \in Identities |-> << >>]
  /\ written = [id \in Identities |-> IF blob[get_env_path(id)].exists THEN [called |-> TRUE, data |-> StoredMap] ELSE NoWrite]
  /\ lock = [path \in BlobPaths |-> 0]
  /\ DATA_LOCKS = EmptyMap
  /\ InitWeb
  /\ pc = [t \in Threads |-> "idle"]
  /\ loc = [t \in Threads |-> NoRequest]

\* a caller's read_vars(namespace, environment)
StartReadOn(t, id) ==
  /\ pc[t] = "idle"
  /\ loc' = [loc EXCEPT ![t] = [Local(EmptyStr, EmptyStr, EmptyMap) EXCEPT !.op = "read_vars", !.id = id]]
  /\ Goto(t, "rv_exists")
  /\ UNCHANGED <<store, lock, DATA_LOCKS, web>>

\* a caller's write_vars(namespace, environment, data)
StartWriteOn(t, id, data) ==
  /\ pc[t] = "idle"
  /\ loc' = [loc EXCEPT ![t] = [Local(EmptyStr, EmptyStr, data) EXCEPT !.op = "write_vars", !.id = id]]
  /\ Goto(t, "wv_encrypt")
  /\ UNCHANGED <<store, lock, DATA_LOCKS, web>>

\* an I/O error that leaves the with block without releasing its lock
rv_read_fails_holding(t) ==
  /\ pc[t] = "rv_read"
  /\ Goto(t, "raised")
  /\ UNCHANGED <<store, lock, DATA_LOCKS, web, loc>>

\* read_vars, lines 177-179: open or read raises OSError; the with statement
\* releases the lock and the exception leaves read_vars
rv_read_fails(t) ==
  /\ pc[t] = "rv_read"
  /\ lock' = [lock EXCEPT ![get_env_path(loc[t].id)] = 0]
  /\ UNCHANGED <<DATA_LOCKS, web>>
  /\ Goto(t, "raised")
  /\ UNCHANGED <<store, loc>>

\* write_vars, lines 199-200: open(path, "wb") raises OSError, the file untouched
wv_open_fails(t) ==
  /\ pc[t] = "wv_open"
  /\ lock' = [lock EXCEPT ![get_env_path(loc[t].id)] = 0]
  /\ UNCHANGED <<DATA_LOCKS, web>>
  /\ Goto(t, "raised")
  /\ UNCHANGED <<store, loc>>

\* write_vars, lines 199-201: the write raises OSError after n cells reached
\* the truncated file
wv_write_fails(t, n) ==
  /\ pc[t] = "wv_write"
  /\ n < Len(loc[t].bytes)
  /\ blob' = [blob EXCEPT ![get_env_path(loc[t].id)].data = SubSeq(loc[t].bytes, 1, n)]
  /\ lock' = [lock EXCEPT ![get_env_path(loc[t].id)] = 0]
  /\ UNCHANGED <<DATA_LOCKS, web>>
  /\ Goto(t, "raised")
  /\ UNCHANGED <<history, audit, now, uuidCount, returned, written, loc>>

PartialLengths == {0, 1}

\* the steps of thread t inside read_vars and write_vars
Proceed(t) ==
  \/ rv_exists(t) \/ rv_lock(t) \/ rv_read(t) \/ rv_unlock(t)
  \/ \E iv \in IVs : wv_encrypt(t, iv)
  \/ wv_lock(t) \/ wv_open(t) \/ wv_write(t) \/ wv_unlock(t)
  \/ rv_read_fails(t) \/ wv_open_fails(t)
  \/ \E n \in PartialLengths : wv_write_fails(t, n)

NextLocks ==
  \/ \E t \in Threads, id \in Identities : StartReadOn(t, id)
  \/ \E t \in Threads, id \in Identities, d \in ConcMaps : StartWriteOn(t, id, d)
  \/ \E t \in Threads : rv_exists(t)
  \/ \E t \in Threads : rv_lock(t)
  \/ \E t \in Threads : rv_read(t)
  \/ \E t \in Threads : rv_unlock(t)
  \/ \E t \in Threads, iv \in IVs : wv_encrypt(t, iv)
  \/ \E t \in Threads : wv_lock(t)
  \/ \E t \in Threads : wv_open(t)
  \/ \E t \in Threads : wv_write(t)
  \/ \E t \in Threads : wv_unlock(t)
  \/ \E t \in Threads : rv_read_fails(t)
  \/ \E t \in Threads : wv_open_fails(t)
  \/ \E t \in Threads, n \in PartialLengths : wv_write_fails(t, n)

\* a thread that can run is run: the interpreter switches between its threads
SpecLocks == InitLocks /\ [][NextLocks]_vars /\ \A t \in Threads : WF_vars(Proceed(t))

InsideWith == {"rv_read", "rv_unlock", "wv_open", "wv_write", "wv_unlock"}
AtLock == {"rv_lock", "wv_lock"}

\* C18: a lock is held only by a thread that is inside the with block of
\* read_vars or write_vars on that path, never by one that returned or
\* raised, and every thread that waits for a lock gets past the wait.
C18_LockAlwaysReleased ==
  /\ [](\A path \in BlobPaths :
          lock[path] # 0 => /\ pc[lock[path]] \in InsideWith
                            /\ get_env_path(loc[lock[path]].id) = path)
  /\ \A t \in Threads : (pc[t] \in AtLock) ~> (pc[t] \notin AtLock)

\* a thread waits for the lock that was held by a write that then failed
C18_Witness ==
  /\ pc[1] = "raised"
  /\ loc[1].op = "write_vars"
  /\ blob[get_env_path(Id1)].exists
  /\ ~FernetDecrypt(blob[get_env_path(Id1)].data).ok
  /\ pc[2] = "rv_read"
  /\ loc[2].id = Id1
  /\ lock[get_env_path(Id1)] = 2

Running == AtLock \cup InsideWith \cup {"rv_exists", "wv_encrypt"}

\* C19: two distinct identities have distinct lock keys, and a thread inside
\* read_vars or write_vars on one identity can take its next step whenever
\* the only lock held by another thread is that of a different identity.
C19_NoContentionAcrossIdentities ==
  /\ \A a \in Identities, b \in Identities : a # b => get_env_path(a) # get_env_path(b)
  /\ \A t \in Threads, u \in Threads, a \in Identities :
       (/\ pc[t] \in Running
        /\ u # t
        /\ lock[get_env_path(a)] = u
        /\ a # loc[t].id)
         => ENABLED Proceed(t)

\* both threads are inside their with blocks at once, a writer on one
\* identity and a reader on the other
C19_Witness ==
  /\ pc[1] = "wv_write"
  /\ loc[1].id = Id1
  /\ lock[get_env_path(Id1)] = 1
  /\ pc[2] = "rv_read"
  /\ loc[2].id = Id2
  /\ lock[get_env_path(Id2)] = 2

(* ================== handlers run alone on two identities =============== *)
FrameValues == {Val1, Val2}
FramePayload == [k \in {KeyB} |-> Val2]

\* a request that writes the current state of identity id: add_variable
\* (write_vars and save_snapshot) or API PUT/PATCH (write_vars)
OperationOn(id) ==
  \/ \E v \in FrameValues, i1 \in IVs : add_variable(id, KeyA, v, i1)
  \/ \E m \in {"PUT", "PATCH"}, i1 \in IVs : api_environment(id, m, TRUE, TRUE, FramePayload, i1)

NextFrame ==
  \/ \E id \in Identities, v \in FrameValues, i1 \in IVs : add_variable(id, KeyA, v, i1) /\ UNCHANGED web
  \/ \E id \in Identities, m \in {"PUT", "PATCH"}, i1 \in IVs :
       api_environment(id, m, TRUE, TRUE, FramePayload, i1) /\ UNCHANGED web

SpecFrame == Init /\ [][NextFrame]_vars

\* what the callers of identity b see is the same before and after the step
ViewUnchanged(b) ==
  /\ read_vars(blob'[get_env_path(b)]) = read_vars(blob[get_env_path(b)])
  /\ \A limit \in LimitValues :
       get_history(history'[_get_history_file(b)], limit) = get_history(history[_get_history_file(b)], limit)
  /\ \A sid \in SnapshotIds :
       get_snapshot(history'[_get_history_file(b)], sid) = get_snapshot(history[_get_history_file(b)], sid)

\* C20: a write_vars or save_snapshot on identity A leaves read_vars,
\* get_history and get_snapshot of every other identity B as they were, and
\* no snapshot id appended for A is found in B.
C20_IdentityPrivate ==
  [][\A a \in Identities, b \in Identities :
       a # b =>
         \/ /\ ViewUnchanged(b)
            /\ \A i \in 1..Len(returned'[a]) :
                 ~get_snapshot(history'[_get_history_file(b)], returned'[a][i].id).found
         \/ ~OperationOn(a)]_vars

\* both identities hold a state and a snapshot of their own
C20_Witness ==
  /\ read_vars(blob[get_env_path(Id1)]) = [k \in {KeyA} |-> Val1]
  /\ read_vars(blob[get_env_path(Id2)]) = [k \in {KeyA, KeyB} |-> Val2]
  /\ Len(returned[Id1]) = 1
  /\ Len(returned[Id2]) = 1
  /\ get_snapshot(history[_get_history_file(Id1)], returned[Id1][1].id).found
  /\ ~get_snapshot(history[_get_history_file(Id2)], returned[Id1][1].id).found

(* ============== requests that name any identity, run alone ============= *)
IdEnvNL == <<Ns1, <<"p", "\n">>>>
IdEnvSpace == <<Ns1, <<"p", " ">>>>
IdNsHash == <<<<"a", "#">>, Env1>>

\* the identities a URL can name: one well formed, three not
RequestIds == {Id1, IdEnvNL, IdEnvSpace, IdNsHash}
RequestBlobPaths == {get_env_path(id) : id \in RequestIds}
RequestHistoryPaths == {_get_history_file(id) : id \in RequestIds}

InitSegments ==
  /\ blob = [path \in RequestBlobPaths |-> NoFile]
  /\ history = [path \in RequestHistoryPaths |-> NoFile]
  /\ audit = NoFile
  /\ now = 0
  /\ uuidCount = 0
  /\ returned = [id \in RequestIds |-> << >>]
  /\ written = [id \in RequestIds |-> NoWrite]
  /\ lock = [path \in RequestBlobPaths |-> 0]
  /\ DATA_LOCKS = EmptyMap
  /\ InitWeb
  /\ pc = [t \in Threads |-> "idle"]
  /\ loc = [t \in Threads |-> NoRequest]

\* ensure_authenticated, line 262, and api_environment, line 615: the view
\* runs only when validate_segments returned; abort(404) leaves all as it was
Routed(id, view) == IF validate_segments(id) THEN view /\ UNCHANGED web ELSE UNCHANGED vars

NextSegments ==
  \/ \E id \in RequestIds, v \in FrameValues, i1 \in IVs :
       Routed(id, add_variable(id, KeyA, v, i1))
  \/ \E id \in RequestIds, i1 \in IVs :
       Routed(id, delete_variable(id, KeyA, i1))
  \/ \E id \in RequestIds, m \in {"PUT", "PATCH"}, i1 \in IVs :
       Routed(id, api_environment(id, m, TRUE, TRUE, FramePayload, i1))

SpecSegments == InitSegments /\ [][NextSegments]_vars

\* ASCII letters, digits, "_", "." and "-", length 1 to 64, for both segments
SegmentsWellFormed(id) == SegmentBodyMatch(id[1]) /\ SegmentBodyMatch(id[2])

\* C21, as claimed: for an identity whose namespace or environment is not 1
\* to 64 characters of letters, digits, "_", "." and "-", no request creates
\* or writes a current-state blob or a history file.
C21_MalformedIdentityTouchesNothing ==
  \A id \in RequestIds :
    ~SegmentsWellFormed(id)
      => /\ ~blob[get_env_path(id)].exists
         /\ ~history[_get_history_file(id)].exists
         /\ ~written[id].called
         /\ returned[id] = << >>

(* ================== the stores called directly, run alone ============== *)
MapA1 == [k \in {KeyA} |-> Val1]
MapA1B2 == [k \in {KeyA, KeyB} |-> IF k = KeyA THEN Val1 ELSE Val2]
StoreMaps == {MapA1, MapA1B2}
StoreActions == {"CREATE", "UPDATE", "DELETE"}
StoreDescription == <<"d">>

\* a caller's write_vars(namespace, environment, data)
StoreWrite(id, data, iv) ==
  /\ WriteVars(id, data, iv)
  /\ UNCHANGED <<history, audit, now, uuidCount, returned, threads, web>>

\* a caller's history_manager.save_snapshot(namespace, environment, variables,
\* user_id, action, description)
StoreSave(id, variables, action, description) ==
  /\ HistoryRoom(id)
  /\ SaveSnapshot(id, variables, action, description)
  /\ now' = now + 1
  /\ UNCHANGED <<blob, written, audit, threads, DATA_LOCKS, web>>

NextStore ==
  \/ \E id \in SpecIds, data \in StoreMaps, iv \in IVs : StoreWrite(id, data, iv)
  \/ \E id \in SpecIds, variables \in StoreMaps, action \in StoreActions :
       StoreSave(id, variables, action, StoreDescription)

SpecStore == Init /\ [][NextStore]_vars

SummaryFields == {"id", "timestamp", "user_id", "action", "description"}

\* the calls of the example: write {A: 1}, save CREATE, write {A: 1, B: 2},
\* save UPDATE
ExampleRan(id) ==
  /\ written[id].called
  /\ written[id].data = MapA1B2
  /\ Len(returned[id]) = 2
  /\ returned[id][1].variables = MapA1 /\ returned[id][1].action = "CREATE"
  /\ returned[id][2].variables = MapA1B2 /\ returned[id][2].action = "UPDATE"

\* C22: after write {A: 1}, save_snapshot CREATE, write {A: 1, B: 2},
\* save_snapshot UPDATE on one identity, get_history(limit=10) returns exactly
\* two entries, the UPDATE first and the CREATE second; and no entry that
\* get_history returns has a variables field, while its other fields are
\* those of the line appended for it.
C22_HistoryExample ==
  \A id \in Identities :
    /\ ExampleRan(id)
         => LET got == get_history(history[_get_history_file(id)], 10) IN
            /\ Len(got) = 2
            /\ got[1]["action"] = "UPDATE" /\ got[1]["id"] = returned[id][2].id
            /\ got[2]["action"] = "CREATE" /\ got[2]["id"] = returned[id][1].id
    /\ \A limit \in LimitValues :
         LET f == history[_get_history_file(id)]
             got == get_history(f, limit)
         IN \A j \in 1..Len(got) :
              /\ DOMAIN got[j] = SummaryFields
              /\ \A name \in SummaryFields :
                   got[j][name] = Field(f.data[Len(f.data) + 1 - j], name)

C22_Witness ==
  /\ ExampleRan(Id1)
  /\ Len(get_history(history[_get_history_file(Id1)], 10)) = 2
  /\ "variables" \in DOMAIN JsonLoadsObj(history[_get_history_file(Id1)].data[1])

(* ================= write_vars called twice with one mapping ============ *)
MapA1Dash == [k \in {KeyA, KeyDash} |-> Val1]
TwiceMaps == {MapA1, MapA1Dash}

\* a caller that runs write_vars(namespace, environment, data) and then the
\* same call again
StartWriteTwice(t, id, data) ==
  /\ pc[t] = "idle"
  /\ loc' = [loc EXCEPT ![t] = [Local(EmptyStr, EmptyStr, data) EXCEPT !.op = "write_twice", !.id = id, !.ret = "write_again"]]
  /\ Goto(t, "wv_encrypt")
  /\ UNCHANGED <<store, lock, DATA_LOCKS, web>>

\* the first call returned, the second starts
write_again(t) ==
  /\ pc[t] = "write_again"
  /\ loc' = [loc EXCEPT ![t].ret = "done"]
  /\ Goto(t, "wv_encrypt")
  /\ UNCHANGED <<store, lock, DATA_LOCKS, web>>

NextTwice ==
  \/ \E t \in Threads, id \in Identities, data \in TwiceMaps : StartWriteTwice(t, id, data)
  \/ \E t \in Threads : write_again(t)
  \/ \E t \in Threads, iv \in IVs : wv_encrypt(t, iv)
  \/ \E t \in Threads : wv_lock(t)
  \/ \E t \in Threads : wv_open(t)
  \/ \E t \in Threads : wv_write(t)
  \/ \E t \in Threads : wv_unlock(t)

SpecTwice == Init /\ [][NextTwice]_vars

\* no other thread has a request on the identity of thread t
AloneOnIdentity(t) == \A u \in Threads \ {t} : loc[u].op = "none" \/ loc[u].id # loc[t].id

\* thread t has returned from the first (write_again) or the second (done)
\* of its two calls
WroteOnceOrTwice(t) == loc[t].op = "write_twice" /\ pc[t] \in {"write_again", "done"}

\* C23, as claimed: after the first and after the second write_vars of the
\* same mapping M, read_vars returns M and the blob decrypts.
C23_WriteTwiceReturnsM ==
  \A t \in Threads :
    (WroteOnceOrTwice(t) /\ AloneOnIdentity(t))
      => /\ FernetDecrypt(blob[get_env_path(loc[t].id)].data).ok
         /\ read_vars(blob[get_env_path(loc[t].id)]) = loc[t].data

\* C23, amended: after the first and after the second write_vars of the same
\* mapping M, read_vars returns the items of M whose keys match the key
\* pattern, the same both times, and the blob decrypts.
C23_WriteTwiceIdempotent ==
  \A t \in Threads :
    (WroteOnceOrTwice(t) /\ AloneOnIdentity(t))
      => /\ FernetDecrypt(blob[get_env_path(loc[t].id)].data).ok
         /\ read_vars(blob[get_env_path(loc[t].id)]) = Sanitize(loc[t].data)

\* the second write of {A: 1, -A: 1} returned, with another IV than the first
C23_Witness ==
  /\ pc[1] = "done"
  /\ loc[1].op = "write_twice"
  /\ loc[1].data = MapA1Dash
  /\ loc[2].op = "none"
  /\ blob[get_env_path(Id1)].data = WriteVarsBytes(MapA1Dash, 1)
  /\ read_vars(blob[get_env_path(Id1)]) = MapA1

(* ============ variables named "error" and blobs changed on disk ======== *)
MarkerKeys == {KeyError, KeyA}
MarkerValues == {Val1, DecryptFailedText}
MarkerPayloads == {ErrorMap, [k \in {KeyA} |-> Val2]}

NextMarker ==
  \/ \E id \in SpecIds, k \in MarkerKeys, v \in MarkerValues, i1 \in IVs : add_variable(id, k, v, i1) /\ UNCHANGED web
  \/ \E id \in SpecIds, m \in {"PUT", "PATCH"}, p \in MarkerPayloads, i1 \in IVs :
       api_environment(id, m, TRUE, TRUE, p, i1) /\ UNCHANGED web
  \/ \E id \in SpecIds, kind \in TamperKinds : Tamper(id, kind)

SpecMarker == Init /\ [][NextMarker]_vars

\* the blob of the identity holds the bytes that write_vars put there
BlobAsWritten(id) ==
  /\ written[id].called
  /\ blob[get_env_path(id)].exists
  /\ FernetDecrypt(blob[get_env_path(id)].data).ok

\* C25, as claimed: for every mapping M with valid keys, also one with a key
\* named "error", read_vars after write_vars(M) differs from the result of
\* read_vars on a blob that fails decryption, and API GET answers it as a
\* success.
C25_MarkerNeverASuccessfulRead ==
  \A id \in Identities :
    (BlobAsWritten(id) /\ AllKeysMatch(written[id].data))
      => /\ read_vars(blob[get_env_path(id)]) # DecodeVars(<< >>)
         /\ api_get(blob[get_env_path(id)]).status = 200

\* the variables of the snapshot of a history line
LineVariables(line) == _decrypt_data(Field(line, "variables"))

HoldsMarker(d) == KeyError \in DOMAIN d /\ d[KeyError] = DecryptFailedText

\* C26, as claimed: while the blob of an identity fails decryption, no request
\* overwrites it, and the decryption-failure marker does not become a variable
\* of the current state or of a history snapshot.
C26_FailedBlobNotOverwritten ==
  [][\A id \in Identities :
       LET path == get_env_path(id)
           after == history'[_get_history_file(id)].data
       IN (blob[path].exists /\ ~FernetDecrypt(blob[path].data).ok)
            => /\ blob'[path] = blob[path]
               /\ \A i \in (Len(history[_get_history_file(id)].data) + 1)..Len(after) :
                    ~HoldsMarker(LineVariables(after[i]))]_vars

(* ============== logs with lines that cannot be used, scanned =========== *)
\* most lines of a log the scans are run on
ScanLen == 2

\* a line save_snapshot wrote in an earlier run of the server
ScanSnapshotLine(k) == SnapshotLine(k, k, MapA1, SessionUser, "CREATE", StoreDescription, k)

\* a line log_variable_create wrote in an earlier run of the server
ScanAuditLine(k) == log_variable_create(NoFile, k, Ns1, Env1, KeyA, Val1, SessionUser, RemoteAddr).data[1]

\* a line whose text broke off after two items: json.loads raises JSONDecodeError
LineCut == SubSeq(ScanSnapshotLine(0), 1, 2) \o <<CutMarker>>

\* a line that parses to a dict without id and variables
LineNoId == <<<<"action", "CREATE">>>>

ScanHistoryLines == {ScanSnapshotLine(0), ScanSnapshotLine(1), LineCut, LineNull, LineNoId}
ScanAuditLines == {ScanAuditLine(0), ScanAuditLine(1), LineCut, LineNull}

SeqsUpTo(S, n) == UNION {[1..k -> S] : k \in 0..n}

\* the server starts on logs left by earlier runs and by other hands
InitScan ==
  /\ blob = [path \in BlobPaths |-> NoFile]
  /\ \E lines \in SeqsUpTo(ScanHistoryLines, ScanLen) :
       history = [path \in HistoryPaths |->
                    IF path = _get_history_file(Id1) THEN [exists |-> TRUE, data |-> lines] ELSE NoFile]
  /\ \E lines \in SeqsUpTo(ScanAuditLines, ScanLen) : audit = [exists |-> TRUE, data |-> lines]
  /\ now = ScanLen
  /\ uuidCount = ScanLen
  /\ returned = [id \in Identities |-> << >>]
  /\ written = [id \in Identities |-> NoWrite]
  /\ lock = [path \in BlobPaths |-> 0]
  /\ DATA_LOCKS = EmptyMap
  /\ InitWeb
  /\ pc = [t \in Threads |-> "idle"]
  /\ loc = [t \in Threads |-> NoRequest]

NoOtherRequest == \A u \in Threads : pc[u] = "idle"

\* view_history: history_manager.get_history(namespace, environment, limit)
ScanHistory(t, id, limit) ==
  /\ NoOtherRequest
  /\ loc' = [loc EXCEPT ![t] = [op |-> "get_history", id |-> id, limit |-> limit,
                                 result |-> get_history(history[_get_history_file(id)], limit)]]
  /\ Goto(t, "done")
  /\ UNCHANGED <<store, lock, DATA_LOCKS, web>>

\* compare_version: history_manager.get_snapshot(namespace, environment, snapshot_id)
ScanSnapshot(t, id, snapshot_id) ==
  /\ NoOtherRequest
  /\ loc' = [loc EXCEPT ![t] = [op |-> "get_snapshot", id |-> id, snapshot_id |-> snapshot_id,
                                 result |-> get_snapshot(history[_get_history_file(id)], snapshot_id)]]
  /\ Goto(t, "done")
  /\ UNCHANGED <<store, lock, DATA_LOCKS, web>>

\* view_audit_logs: audit_logger.get_logs(namespace, environment, action, limit)
ScanLogs(t, namespace, environment, action, limit) ==
  /\ NoOtherRequest
  /\ loc' = [loc EXCEPT ![t] = [op |-> "get_logs", namespace |-> namespace, environment |-> environment,
                                 action |-> action, limit |-> limit,
                                 result |-> get_logs(audit, namespace, environment, action, limit)]]
  /\ Goto(t, "done")
  /\ UNCHANGED <<store, lock, DATA_LOCKS, web>>

ScanLimits == {1, ScanLen + 1}

NextScan ==
  \/ \E t \in Threads, limit \in ScanLimits : ScanHistory(t, Id1, limit)
  \/ \E t \in Threads, snapshot_id \in 0..1 : ScanSnapshot(t, Id1, snapshot_id)
  \/ \E t \in Threads, namespace \in {EmptyStr, Ns1}, limit \in ScanLimits :
       ScanLogs(t, namespace, EmptyStr, "", limit)

SpecScan == InitScan /\ [][NextScan]_vars

ItemNames(line) == {line[i][1] : i \in 1..Len(line)}

\* a line that parses to a record with every item of a snapshot
UsableSnapshotLine(line) ==
  JsonKind(line) = "dict" /\ ItemNames(line) = {SnapshotFields[i] : i \in 1..Len(SnapshotFields)}

\* a line that parses to a record with every item common to the audit events
UsableAuditLine(line) ==
  JsonKind(line) = "dict" /\ {AuditHead[i] : i \in 1..Len(AuditHead)} \subseteq ItemNames(line)

\* the log without the lines that cannot be used
UsableHistory(f) == [f EXCEPT !.data = SelectSeq(@, UsableSnapshotLine)]
UsableAudit(f) == [f EXCEPT !.data = SelectSeq(@, UsableAuditLine)]

\* C27, as claimed: on a log with lines that do not parse or do not parse to
\* a well-formed record, get_history, get_snapshot and get_logs return what
\* they return on the log with those lines removed.
C27_BadLinesSkipped ==
  \A t \in Threads :
    pc[t] = "done"
      => CASE loc[t].op = "get_history" ->
                loc[t].result = get_history(UsableHistory(history[_get_history_file(loc[t].id)]), loc[t].limit)
           [] loc[t].op = "get_snapshot" ->
                loc[t].result = get_snapshot(UsableHistory(history[_get_history_file(loc[t].id)]), loc[t].snapshot_id)
           [] loc[t].op = "get_logs" ->
                loc[t].result = get_logs(UsableAudit(audit), loc[t].namespace, loc[t].environment, loc[t].action, loc[t].limit)
           [] OTHER -> TRUE

(* ========= save_snapshot and _write_log step by step, with I/O errors === *)
\* self.log_file of the audit logger
log_file == <<"audit_logs/audit.jsonl">>

\* save_snapshot, line 60: _get_history_file made the directory and returned
ss_path(t) ==
  /\ pc[t] = "ss_append"
  /\ Goto(t, "ss_open")
  /\ UNCHANGED <<store, lock, DATA_LOCKS, web, loc>>

\* save_snapshot, line 60: env_dir.mkdir raises OSError; line 60 is outside the
\* try block, the exception leaves save_snapshot and the view
ss_path_fails(t) ==
  /\ pc[t] = "ss_append"
  /\ Goto(t, "raised")
  /\ UNCHANGED <<store, lock, DATA_LOCKS, web, loc>>

\* save_snapshot, line 62: open(history_file, "a") creates the file if needed
ss_open(t) ==
  /\ pc[t] = "ss_open"
  /\ history' = [history EXCEPT ![_get_history_file(loc[t].id)].exists = TRUE]
  /\ Goto(t, "ss_write")
  /\ UNCHANGED <<blob, audit, now, uuidCount, returned, written, lock, DATA_LOCKS, web, loc>>

\* save_snapshot, lines 62 and 66-68: open raises, "" is returned
ss_open_fails(t) ==
  /\ pc[t] = "ss_open"
  /\ loc' = [loc EXCEPT ![t].snapshot_id = NoSnapshotId]
  /\ Goto(t, "al_build")
  /\ UNCHANGED <<store, lock, DATA_LOCKS, web>>

\* save_snapshot, lines 63-65: the line is written as the file closes and the
\* id is returned
ss_write(t) ==
  /\ pc[t] = "ss_write"
  /\ history' = [history EXCEPT ![_get_history_file(loc[t].id)] = AppendLine(@, loc[t].line)]
  /\ returned' = [returned EXCEPT ![loc[t].id] =
       Append(@, [id |-> JsonLoadsObj(loc[t].line)["id"], variables |-> loc[t].data,
                  action |-> JsonLoadsObj(loc[t].line)["action"]])]
  /\ loc' = [loc EXCEPT ![t].snapshot_id = JsonLoadsObj(loc[t].line)["id"]]
  /\ Goto(t, "al_build")
  /\ UNCHANGED <<blob, audit, now, uuidCount, written, lock, DATA_LOCKS, web>>

\* save_snapshot, lines 63 and 66-68: the write raises OSError after n items
\* of the line reached the file, "" is returned
ss_write_fails(t, n) ==
  /\ pc[t] = "ss_write"
  /\ history' = [history EXCEPT ![_get_history_file(loc[t].id)] = AppendCut(@, loc[t].line, n)]
  /\ loc' = [loc EXCEPT ![t].snapshot_id = NoSnapshotId]
  /\ Goto(t, "al_build")
  /\ UNCHANGED <<blob, audit, now, uuidCount, returned, written, lock, DATA_LOCKS, web>>

\* the line log_variable_update or log_variable_create hands to _write_log
AuditLineFor(t) ==
  (IF loc[t].is_update
   THEN log_variable_update(NoFile, loc[t].ts, loc[t].id[1], loc[t].id[2], loc[t].key,
                            loc[t].old_value, loc[t].value, SessionUser, RemoteAddr)
   ELSE log_variable_create(NoFile, loc[t].ts, loc[t].id[1], loc[t].id[2], loc[t].key,
                            loc[t].value, SessionUser, RemoteAddr)).data[1]

\* _write_log, line 36: open(self.log_file, "a")
al_open(t) ==
  /\ pc[t] = "al_append"
  /\ audit' = [audit EXCEPT !.exists = TRUE]
  /\ Goto(t, "al_write")
  /\ UNCHANGED <<blob, history, now, uuidCount, returned, written, lock, DATA_LOCKS, web, loc>>

\* _write_log, lines 36 and 38-39: open raises, the error is logged
al_open_fails(t) ==
  /\ pc[t] = "al_append"
  /\ Goto(t, "done")
  /\ UNCHANGED <<store, lock, DATA_LOCKS, web, loc>>

\* _write_log, line 37: the line is written as the file closes
al_write(t) ==
  /\ pc[t] = "al_write"
  /\ audit' = AppendLine(audit, AuditLineFor(t))
  /\ Goto(t, "done")
  /\ UNCHANGED <<blob, history, now, uuidCount, returned, written, lock, DATA_LOCKS, web, loc>>

\* _write_log, lines 37-39: the write raises OSError after n items of the
\* line reached the file, the error is logged
al_write_fails(t, n) ==
  /\ pc[t] = "al_write"
  /\ audit' = AppendCut(audit, AuditLineFor(t), n)
  /\ Goto(t, "done")
  /\ UNCHANGED <<blob, history, now, uuidCount, returned, written, lock, DATA_LOCKS, web, loc>>

NextAppend ==
  \/ \E t \in Threads, k \in ConcKeys, v \in ConcValues : StartAdd(t, k, v)
  \/ \E t \in Threads : rv_exists(t)
  \/ \E t \in Threads : rv_lock(t)
  \/ \E t \in Threads : rv_read(t)
  \/ \E t \in Threads : rv_unlock(t)
  \/ \E t \in Threads : add_read1(t)
  \/ \E t \in Threads : add_read2(t)
  \/ \E t \in Threads, iv \in IVs : wv_encrypt(t, iv)
  \/ \E t \in Threads : wv_lock(t)
  \/ \E t \in Threads : wv_open(t)
  \/ \E t \in Threads : wv_write(t)
  \/ \E t \in Threads : wv_unlock(t)
  \/ \E t \in Threads : ss_build(t)
  \/ \E t \in Threads : ss_path(t)
  \/ \E t \in Threads : ss_path_fails(t)
  \/ \E t \in Threads : ss_open(t)
  \/ \E t \in Threads : ss_open_fails(t)
  \/ \E t \in Threads : ss_write(t)
  \/ \E t \in Threads, n \in PartialLengths : ss_write_fails(t, n)
  \/ \E t \in Threads : al_build(t)
  \/ \E t \in Threads : al_open(t)
  \/ \E t \in Threads : al_open_fails(t)
  \/ \E t \in Threads : al_write(t)
  \/ \E t \in Threads, n \in PartialLengths : al_write_fails(t, n)

SpecAppend == Init /\ [][NextAppend]_vars

\* thread t holds the lock that DATA_LOCKS keeps for the path
HoldsLockOf(t, path) == path \in DOMAIN lock /\ lock[path] = t

\* C24, as claimed: a thread that has a log file open for an append holds the
\* lock keyed by that file's path, and no two threads have the same log file
\* open for an append at once.
C24_AppendsUnderLock ==
  \A t \in Threads :
    /\ pc[t] = "ss_write"
         => /\ HoldsLockOf(t, _get_history_file(loc[t].id))
            /\ \A u \in Threads \ {t} : ~(pc[u] = "ss_write" /\ loc[u].id = loc[t].id)
    /\ pc[t] = "al_write"
         => /\ HoldsLockOf(t, log_file)
            /\ \A u \in Threads \ {t} : pc[u] # "al_write"

\* C28, as claimed: when making the directory, opening the history file or
\* appending to it fails, save_snapshot does not raise, it returns "", and the
\* lines of the history log and the current state are as before.
C28_SnapshotFailureIsQuiet ==
  [][\A t \in Threads :
       (ss_path_fails(t) \/ ss_open_fails(t) \/ \E n \in PartialLengths : ss_write_fails(t, n))
         => /\ pc'[t] = "al_build"
            /\ loc'[t].snapshot_id = NoSnapshotId
            /\ history'[_get_history_file(loc[t].id)].data = history[_get_history_file(loc[t].id)].data
            /\ blob' = blob]_vars

\* C29, as claimed: when writing the audit record fails, the log_* call
\* returns, the lines of the audit log are as before, and the current state
\* and the history log are untouched.
C29_AuditFailureIsQuiet ==
  [][\A t \in Threads :
       (al_open_fails(t) \/ \E n \in PartialLengths : al_write_fails(t, n))
         => /\ pc'[t] = "done"
            /\ audit'.data = audit.data
            /\ blob' = blob
            /\ history' = history]_vars

\* ---------------------------------------------------------------------
\* the lock registry, called directly
\* ---------------------------------------------------------------------

\* calls of _lock_for one thread makes
MaxCalls == 2

\* what the calls of thread t have returned so far, oldest first
Got(t) == IF "got" \in DOMAIN loc[t] THEN loc[t].got ELSE << >>

\* a thread calls _lock_for(path); first tells whether the registry had no
\* lock for the path when the call was made
CallLockFor(t, path) ==
  /\ pc[t] = "idle"
  /\ Len(Got(t)) < MaxCalls
  /\ pc' = [pc EXCEPT ![t] = "lock_for"]
  /\ loc' = [loc EXCEPT ![t] = [op |-> "_lock_for", path |-> path, first |-> path \notin DOMAIN DATA_LOCKS, got |-> Got(t)]]
  /\ UNCHANGED <<store, lock, DATA_LOCKS, web>>

\* a registry that looks the path up when called and stores a new lock
\* later, whatever was registered in between
_lock_for_stale(t) ==
  /\ pc[t] = "lock_for"
  /\ DATA_LOCKS' = IF loc[t].first THEN DictSet(DATA_LOCKS, loc[t].path, NewLock(DATA_LOCKS)) ELSE DATA_LOCKS
  /\ UNCHANGED web
  /\ loc' = [loc EXCEPT ![t].got = Append(@, [path |-> loc[t].path, first |-> loc[t].first, lock |-> DATA_LOCKS'[loc[t].path]])]
  /\ pc' = [pc EXCEPT ![t] = "idle"]
  /\ UNCHANGED <<store, lock>>

\* return DATA_LOCKS[path]: the lookup of a defaultdict, which on a missing
\* key calls Lock(), stores the result under the key and returns it, all in
\* one step of the interpreter
_lock_for(t) ==
  /\ pc[t] = "lock_for"
  /\ DATA_LOCKS' = LockRegistered(DATA_LOCKS, loc[t].path)
  /\ UNCHANGED web
  /\ loc' = [loc EXCEPT ![t].got = Append(@, [path |-> loc[t].path, first |-> loc[t].first, lock |-> DATA_LOCKS'[loc[t].path]])]
  /\ pc' = [pc EXCEPT ![t] = "idle"]
  /\ UNCHANGED <<store, lock>>

NextRegistry ==
  \/ \E t \in Threads, path \in BlobPaths \cup HistoryPaths : CallLockFor(t, path)
  \/ \E t \in Threads : _lock_for(t)

SpecRegistry == Init /\ [][NextRegistry]_vars

\* the locks the calls have returned for a path
LocksObtained(path) ==
  UNION {{Got(t)[i].lock : i \in {j \in 1..Len(Got(t)) : Got(t)[j].path = path}} : t \in Threads}

\* C30: every call of _lock_for with the same path returns the same lock,
\* the one the registry holds for the path, also when the first calls for the
\* path are made at the same time; and a lock the registry holds is never
\* replaced or removed.
C30_OneLockPerPath ==
  /\ [](\A path \in BlobPaths \cup HistoryPaths :
          LocksObtained(path) # {} => path \in DOMAIN DATA_LOCKS /\ LocksObtained(path) = {DATA_LOCKS[path]})
  /\ [][\A path \in DOMAIN DATA_LOCKS : path \in DOMAIN DATA_LOCKS' /\ DATA_LOCKS'[path] = DATA_LOCKS[path]]_vars

\* two threads made the first call for the same path at the same time, and
\* both calls have returned
C30_Witness ==
  \E path \in BlobPaths :
    \A t \in Threads :
      \E i \in 1..Len(Got(t)) : Got(t)[i].path = path /\ Got(t)[i].first /\ Got(t)[i].lock = DATA_LOCKS[path]

\* ---------------------------------------------------------------------
\* the password gate
\* ---------------------------------------------------------------------

\* password submissions of one identifier the model follows, and how far its
\* clock runs
MaxSubmissions == 3
MaxClock == 4

\* time passes between two requests
Tick ==
  /\ now < MaxClock
  /\ now' = now + 1
  /\ UNCHANGED <<blob, history, audit, uuidCount, returned, written, threads, DATA_LOCKS, web>>

\* GET and POST /<namespace>/<environment>.  password: the form's field;
\* fresh: what secrets.token_urlsafe(32) gives if the page asks for a CSRF
\* token.  All its readings of the clock fall into one tick.
dashboard(c, id, method, password, fresh) ==
  LET session_key == session_key_for(id)
      identifier == LoginIdentifier(id)
      opened == open_session(cookie[c], now)
      session == update_last_seen(opened, now)
      login == method = "POST" /\ session_key \notin DOMAIN session
      lock_check == is_locked(LOGIN_ATTEMPTS, identifier, now)
      password_ok == password # EmptyStr /\ check_password_hash(DASHBOARD_PASSWORD_HASH, password)
      flash == IF ~login THEN "none"
               ELSE IF lock_check.locked THEN "locked"
               ELSE IF password_ok THEN "unlocked"
               ELSE "invalid"
      attempts == IF ~login THEN LOGIN_ATTEMPTS
                  ELSE IF flash = "unlocked" THEN reset_attempts(lock_check.attempts, identifier)
                  ELSE IF flash = "invalid"
                       THEN record_failed_attempt(lock_check.attempts, identifier, now, MAX_LOGIN_ATTEMPTS)
                       ELSE lock_check.attempts
      remaining == IF MAX_LOGIN_ATTEMPTS - attempts[identifier].fails > 0
                   THEN MAX_LOGIN_ATTEMPTS - attempts[identifier].fails ELSE 0
      authed == IF flash = "unlocked" THEN mark_authenticated(session, id, now) ELSE session
      page == IF flash = "locked" THEN "login"
              ELSE IF flash = "unlocked" THEN "redirect_dashboard"
              ELSE IF session_key \in DOMAIN authed THEN "dashboard"
              ELSE "login"
      rendered == IF page = "redirect_dashboard" THEN authed ELSE generate_csrf_token(authed, fresh)
  IN /\ validate_segments(id)
     /\ login => Len(submitted[identifier]) < MaxSubmissions
     /\ cookie' = [cookie EXCEPT ![c] = save_session(@, rendered, flash # "none" \/ rendered # opened, now)]
     /\ LOGIN_ATTEMPTS' = attempts
     /\ submitted' = IF ~login THEN submitted
                     ELSE [submitted EXCEPT ![identifier] =
                             Append(@, IF flash = "invalid"
                                       THEN [password_ok |-> password_ok, flash |-> flash, at |-> now,
                                             remaining |-> remaining]
                                       ELSE [password_ok |-> password_ok, flash |-> flash, at |-> now])]
     /\ response' = [response EXCEPT ![c] = [route |-> "dashboard", id |-> id, page |-> page,
                                             flash |-> flash, at |-> now]]
     /\ DATA_LOCKS' = IF page = "dashboard" /\ blob[get_env_path(id)].exists
                      THEN LockRegistered(DATA_LOCKS, get_env_path(id)) ELSE DATA_LOCKS
     /\ UNCHANGED <<store, threads, MAX_LOGIN_ATTEMPTS>>

\* the values of MAX_LOGIN_ATTEMPTS the deployments of the model are set to
LoginLimits == {1, 2}
Passwords == {DashboardPassword, WrongPassword, EmptyStr}
CsrfTokens == {<<"t">>}

InitLogin ==
  /\ blob = [path \in BlobPaths |-> NoFile]
  /\ history = [path \in HistoryPaths |-> NoFile]
  /\ audit = NoFile
  /\ now = 0
  /\ uuidCount = 0
  /\ returned = [id \in Identities |-> << >>]
  /\ written = [id \in Identities |-> NoWrite]
  /\ lock = [path \in BlobPaths |-> 0]
  /\ DATA_LOCKS = EmptyMap
  /\ InitWebWith(LoginLimits)
  /\ pc = [t \in Threads |-> "idle"]
  /\ loc = [t \in Threads |-> NoRequest]

NextLogin ==
  \/ \E c \in Clients, id \in SpecIds, method \in {"GET", "POST"}, password \in Passwords, fresh \in CsrfTokens :
       dashboard(c, id, method, password, fresh)
  \/ Tick

SpecLogin == InitLogin /\ [][NextLogin]_vars

\* the submissions up to the n-th that failed one after the other, the n-th
\* included: none of them logged in or was turned away as locked
ConsecutiveFailures(log, n) ==
  LET starts == {m \in 1..n : \A j \in m..n : log[j].flash = "invalid"} IN
  IF starts = {} THEN 0 ELSE n + 1 - (CHOOSE m \in starts : \A o \in starts : m <= o)

\* C31, as claimed: after the k-th failed password submission in a row from
\* one identifier the page shows MAX_LOGIN_ATTEMPTS - k remaining attempts,
\* and after the MAX_LOGIN_ATTEMPTS-th the identifier is locked: the next
\* submission, made before the lockout is over, is turned away as locked.
C31_LockedAfterMaxFailures ==
  \A i \in LoginIdentifiers :
    \A n \in 1..Len(submitted[i]) :
      LET k == ConsecutiveFailures(submitted[i], n) IN
      (k >= 1 /\ k <= MAX_LOGIN_ATTEMPTS)
        => /\ submitted[i][n].remaining = MAX_LOGIN_ATTEMPTS - k
           /\ (k = MAX_LOGIN_ATTEMPTS /\ n < Len(submitted[i])
                 /\ submitted[i][n + 1].at < submitted[i][n].at + LOCKOUT_DELTA)
                => submitted[i][n + 1].flash = "locked"

\* the session the server would open from the cookie holds the marker of id
Authenticated(ck, id, time) == session_key_for(id) \in DOMAIN open_session(ck, time)

\* C32: a password submission from an identifier whose locked_until lies in
\* the future does not authenticate the session, whatever the password, and
\* leaves LOGIN_ATTEMPTS as it was; a submission made when locked_until has
\* passed finds the entry removed: afterwards the identifier has no entry, or
\* one that counts this failure alone.
C32_LockedMeansLocked ==
  [][\A c \in Clients, id \in SpecIds, password \in Passwords, fresh \in CsrfTokens :
       (dashboard(c, id, "POST", password, fresh) /\ LoginIdentifier(id) \in DOMAIN LOGIN_ATTEMPTS)
         => LET entry == LOGIN_ATTEMPTS[LoginIdentifier(id)] IN
            /\ (entry.locked_until # NoTime /\ entry.locked_until > now)
                 => /\ Authenticated(cookie'[c], id, now) => Authenticated(cookie[c], id, now)
                    /\ LOGIN_ATTEMPTS' = LOGIN_ATTEMPTS
            /\ (entry.locked_until # NoTime /\ entry.locked_until <= now
                  /\ ~Authenticated(cookie[c], id, now))
                 => \/ LoginIdentifier(id) \notin DOMAIN LOGIN_ATTEMPTS'
                    \/ LOGIN_ATTEMPTS'[LoginIdentifier(id)].fails = 1]_vars

\* the right password was turned away while the identifier was locked, and
\* it logged in once the lockout was over
C32_Witness ==
  \E i \in LoginIdentifiers :
    \E n \in 1..Len(submitted[i]) :
      /\ submitted[i][n].flash = "locked" /\ submitted[i][n].password_ok
      /\ n < Len(submitted[i])
      /\ submitted[i][n + 1].flash = "unlocked"

\* ---------------------------------------------------------------------
\* the routes of a session
\* ---------------------------------------------------------------------

log_logout(f, ts, namespace, environment, user_id, ip_address) ==
  _write_log(f, [timestamp |-> ts, action |-> "LOGOUT",
                 namespace |-> namespace, environment |-> environment,
                 resource |-> "authentication", user_id |-> user_id, ip_address |-> ip_address],
             AuditHead)

\* GET /logout/<namespace>/<environment>
logout(c, id) ==
  LET opened == open_session(cookie[c], now)
      session == clear_auth(update_last_seen(opened, now), id)
  IN /\ AuditRoom
     /\ audit' = log_logout(audit, now, id[1], id[2], SessionUser, RemoteAddr)
     /\ now' = now + 1
     /\ cookie' = [cookie EXCEPT ![c] = save_session(@, session, session # opened, now')]
     /\ response' = [response EXCEPT ![c] = [route |-> "logout", id |-> id,
                                             page |-> "redirect_dashboard", at |-> now']]
     /\ UNCHANGED <<blob, history, uuidCount, returned, written, threads, DATA_LOCKS>>
     /\ UNCHANGED <<LOGIN_ATTEMPTS, MAX_LOGIN_ATTEMPTS, submitted>>

\* a request to a route decorated with @ensure_authenticated: before_request,
\* the wrapper, and the view when the wrapper calls it.  checks_csrf: the view
\* starts with validate_csrf(); token: the CSRF token the request carries
Wrapped(c, id, route, checks_csrf, token, view) ==
  LET opened == open_session(cookie[c], now)
      session == update_last_seen(opened, now)
      wrapper == ensure_authenticated(session, id, now)
      page == IF ~wrapper.served THEN "redirect_login"
              ELSE IF checks_csrf /\ ~validate_csrf(wrapper.session, token) THEN "bad_request"
              ELSE "served"
  IN /\ validate_segments(id)
     /\ IF page = "served" THEN view ELSE UNCHANGED core
     /\ cookie' = [cookie EXCEPT ![c] = save_session(@, wrapper.session, wrapper.session # opened, now')]
     /\ response' = [response EXCEPT ![c] = [route |-> route, id |-> id, page |-> page, at |-> now']]
     /\ UNCHANGED <<LOGIN_ATTEMPTS, MAX_LOGIN_ATTEMPTS, submitted>>

\* GET /history/<namespace>/<environment>: the view reads and renders
ViewHistory(c, id) == Wrapped(c, id, "view_history", FALSE, NoToken, UNCHANGED core)

\* the POST routes of a session
PostAdd(c, id, key, value, token, iv) ==
  Wrapped(c, id, "add_variable", FALSE, token, add_variable(id, key, value, iv))

PostDelete(c, id, key, token, iv) ==
  Wrapped(c, id, "delete_variable", FALSE, token, delete_variable(id, key, iv))

PostBulk(c, id, lines, token, iv) ==
  Wrapped(c, id, "bulk_replace", TRUE, token, bulk_replace(id, lines, iv))

PostRollback(c, id, snapshot_id, token, iv) ==
  Wrapped(c, id, "rollback_version", FALSE, token, rollback_version(id, snapshot_id, iv))

PostTemplate(c, id, template_key, generated, token, iv) ==
  Wrapped(c, id, "apply_template", FALSE, token, apply_template(id, template_key, generated, iv))

\* what a request may carry as its CSRF token
RequestTokens == {NoToken, <<"t">>, <<"w">>}
SessionPasswords == {DashboardPassword, WrongPassword}

\* the browser whose session the model follows
SessionClients == {1}

\* a browser that logs in and comes back after a while
NextSession ==
  \/ \E c \in SessionClients, id \in SpecIds, method \in {"GET", "POST"}, fresh \in CsrfTokens :
       dashboard(c, id, method, DashboardPassword, fresh)
  \/ \E c \in SessionClients, id \in SpecIds : ViewHistory(c, id)
  \/ \E c \in SessionClients, id \in SpecIds : PostAdd(c, id, KeyA, Val1, NoToken, 0)
  \/ Tick

SpecSession == Init /\ [][NextSession]_vars

\* a browser that logs in to and out of two identities
NextIdentity ==
  \/ \E c \in SessionClients, id \in Identities, password \in SessionPasswords, fresh \in CsrfTokens :
       dashboard(c, id, "POST", password, fresh)
  \/ \E c \in SessionClients, id \in Identities : logout(c, id)
  \/ \E c \in SessionClients, id \in Identities : ViewHistory(c, id)
  \/ \E c \in SessionClients, id \in Identities : PostAdd(c, id, KeyA, Val1, NoToken, 0)

SpecIdentity == Init /\ [][NextIdentity]_vars

\* a browser that logs in and posts forms, with and without the token of its
\* session
NextForms ==
  \/ \E c \in SessionClients, id \in SpecIds, method \in {"GET", "POST"}, fresh \in CsrfTokens :
       dashboard(c, id, method, DashboardPassword, fresh)
  \/ \E c \in SessionClients, id \in SpecIds, token \in RequestTokens : PostAdd(c, id, KeyA, Val1, token, 0)
  \/ \E c \in SessionClients, id \in SpecIds, token \in RequestTokens : PostDelete(c, id, KeyA, token, 0)
  \/ \E c \in SessionClients, id \in SpecIds, token \in RequestTokens : PostBulk(c, id, BulkA1, token, 0)
  \/ \E c \in SessionClients, id \in SpecIds, token \in RequestTokens : PostRollback(c, id, 0, token, 0)
  \/ \E c \in SessionClients, id \in SpecIds, token \in RequestTokens : PostTemplate(c, id, TemplateBasic, Val2, token, 0)

SpecForms == Init /\ [][NextForms]_vars

\* browser c sends a request for id to a route behind ensure_authenticated
WrappedRequest(c, id) ==
  \/ ViewHistory(c, id)
  \/ \E token \in RequestTokens : PostAdd(c, id, KeyA, Val1, token, 0)
  \/ \E token \in RequestTokens : PostDelete(c, id, KeyA, token, 0)
  \/ \E token \in RequestTokens : PostBulk(c, id, BulkA1, token, 0)
  \/ \E token \in RequestTokens : PostRollback(c, id, 0, token, 0)
  \/ \E token \in RequestTokens : PostTemplate(c, id, TemplateBasic, Val2, token, 0)

\* C33: a request to a route behind ensure_authenticated that arrives more
\* than SESSION_TIMEOUT after the browser's previous request is redirected to
\* the login page, and its view does not run: the current state, the history
\* log and the audit log stay as they are.
C33_TimedOutNotServed ==
  [][\A c \in SessionClients, id \in SpecIds :
       (WrappedRequest(c, id) /\ response[c].route # "none" /\ now - response[c].at > SESSION_TIMEOUT)
         => /\ response'[c].page = "redirect_login"
            /\ blob' = blob /\ history' = history /\ audit' = audit]_vars

\* a browser that had logged in came back too late and was sent to the login
\* page: its cookie still holds the marker, signed too long ago
C33_Witness ==
  \E c \in SessionClients :
    /\ response[c].route \in {"view_history", "add_variable"}
    /\ response[c].page = "redirect_login"
    /\ cookie[c].present
    /\ session_key_for(response[c].id) \in DOMAIN cookie[c].data
    /\ response[c].at - cookie[c].signed_at > SESSION_TIMEOUT

\* C34: a view behind ensure_authenticated runs for an identity only when the
\* session holds the marker of that identity; a session comes to hold the
\* marker of an identity only through a POST of the right password to the
\* dashboard of that identity; and after logout for an identity the session
\* does not hold its marker.
C34_AuthenticatedPerIdentity ==
  /\ [][\A c \in SessionClients, id \in Identities :
          (WrappedRequest(c, id) /\ response'[c].page # "redirect_login")
            => Authenticated(cookie[c], id, now)]_vars
  /\ [][\A c \in SessionClients, id \in Identities :
          (~Authenticated(cookie[c], id, now) /\ Authenticated(cookie'[c], id, now'))
            => \E fresh \in CsrfTokens : dashboard(c, id, "POST", DashboardPassword, fresh)]_vars
  /\ [][\A c \in SessionClients, id \in Identities :
          logout(c, id) => ~Authenticated(cookie'[c], id, now')]_vars

\* a browser logged in for one identity asked for a view of the other and
\* was sent to the login page
C34_Witness ==
  \E c \in SessionClients, id \in Identities, other \in Identities :
    /\ id # other
    /\ Authenticated(cookie[c], id, now)
    /\ ~Authenticated(cookie[c], other, now)
    /\ response[c].route \in {"view_history", "add_variable"}
    /\ response[c].id = other
    /\ response[c].page = "redirect_login"

\* a POST of the forms of a session, carrying the token in its csrf_token field
FormPost(c, id, token) ==
  \/ PostAdd(c, id, KeyA, Val1, token, 0)
  \/ PostDelete(c, id, KeyA, token, 0)
  \/ PostBulk(c, id, BulkA1, token, 0)
  \/ PostRollback(c, id, 0, token, 0)
  \/ PostTemplate(c, id, TemplateBasic, Val2, token, 0)

\* C35: a POST to add_variable, delete_variable, bulk_replace,
\* rollback_version or apply_template whose csrf_token field is missing or
\* differs from the token of the session changes neither the current state
\* nor the history log.
C35_NoWriteWithoutToken ==
  [][\A c \in SessionClients, id \in SpecIds, token \in RequestTokens :
       (FormPost(c, id, token) /\ ~validate_csrf(open_session(cookie[c], now), token))
         => UNCHANGED <<blob, history>>]_vars

(* ================= templates over a state that has "error" ============= *)
NextTemplate ==
  \/ \E id \in SpecIds, k \in MarkerKeys \cup {KeyB}, v \in FormValues, i1 \in IVs : add_variable(id, k, v, i1) /\ UNCHANGED web
  \/ \E id \in SpecIds, tk \in TemplateKeys, i1 \in IVs : apply_template(id, tk, Val2, i1) /\ UNCHANGED web
  \/ \E id \in SpecIds, k \in MarkerKeys, i1 \in IVs : delete_variable(id, k, i1) /\ UNCHANGED web

SpecTemplate == Init /\ [][NextTemplate]_vars

\* apply_template ran to its end on the identity with a template of the file
TemplateApplied(id, tk) ==
  /\ tk \in DOMAIN Templates
  /\ \E i1 \in IVs : apply_template(id, tk, Val2, i1)

\* C36: after apply_template, every variable of the prior state that the
\* template does not name is present with its old value, also when the prior
\* state has a variable named "error", and every variable of the template is
\* present.
C36_TemplateMerges ==
  [][\A id \in SpecIds, tk \in TemplateKeys :
       (TemplateApplied(id, tk) /\ AllKeysMatch(read_vars(blob[get_env_path(id)])))
         => LET before == read_vars(blob[get_env_path(id)])
                after == read_vars(blob'[get_env_path(id)])
            IN /\ \A k \in DOMAIN before \ DOMAIN Templates[tk].variables :
                    k \in DOMAIN after /\ after[k] = before[k]
               /\ DOMAIN Templates[tk].variables \subseteq DOMAIN after]_vars

(* ============== snapshots whose variables do not decrypt =============== *)
\* the line with its variables token changed
TamperedLine(line, kind) ==
  [j \in DOMAIN line |->
     IF line[j][1] = "variables" THEN <<"variables", Tampered(line[j][2], kind)>> ELSE line[j]]

\* the variables token of a line of the identity's history, intact so far,
\* is changed on disk
TamperSnapshot(id, i, kind) ==
  /\ i \in DOMAIN history[_get_history_file(id)].data
  /\ FernetDecrypt(JsonLoadsObj(history[_get_history_file(id)].data[i])["variables"]).ok
  /\ history' = [history EXCEPT ![_get_history_file(id)].data[i] = TamperedLine(@, kind)]
  /\ UNCHANGED <<blob, audit, now, uuidCount, returned, written, threads, DATA_LOCKS, web>>

NextRollback ==
  \/ \E id \in SpecIds, k \in UrlKeys, v \in FormValues, i1 \in IVs : add_variable(id, k, v, i1) /\ UNCHANGED web
  \/ \E id \in SpecIds, i \in 1..MaxHist, kind \in TamperKinds : TamperSnapshot(id, i, kind)
  \/ \E id \in SpecIds, snapshot_id \in 0..MaxHist, i1 \in IVs : rollback_version(id, snapshot_id, i1) /\ UNCHANGED web

SpecRollback == Init /\ [][NextRollback]_vars

\* the first line of that id in the identity's history holds a variables
\* token that Fernet rejects
SnapshotUndecryptable(id, snapshot_id) ==
  LET lines == history[_get_history_file(id)].data IN
  \E i \in DOMAIN lines :
    /\ JsonLoadsObj(lines[i])["id"] = snapshot_id
    /\ \A j \in 1..(i - 1) : JsonLoadsObj(lines[j])["id"] # snapshot_id
    /\ ~FernetDecrypt(JsonLoadsObj(lines[i])["variables"]).ok

\* C37: when the variables of the selected snapshot cannot be decrypted,
\* rollback_version leaves the current state as it is and appends no
\* snapshot.
C37_RollbackOnlyRecorded ==
  [][\A id \in SpecIds, snapshot_id \in 0..MaxHist :
       (/\ \E i1 \in IVs : rollback_version(id, snapshot_id, i1)
        /\ SnapshotUndecryptable(id, snapshot_id))
         => UNCHANGED <<blob, history>>]_vars

(* ================= audit records and what really happened ============== *)
\* the step appended a record of the action about the key to the audit log
AuditAppended(actions, key) ==
  /\ Len(audit'.data) = Len(audit.data) + 1
  /\ Field(audit'.data[Len(audit'.data)], "action") \in actions
  /\ Field(audit'.data[Len(audit'.data)], "resource") = key

\* a DELETE_VARIABLE record is appended by delete_variable only when the key
\* was in the current state and is not in it afterwards
DeleteAuditedOnlyWhenDeleted ==
  \A id \in SpecIds, k \in UrlKeys :
    (/\ \E i1 \in IVs : delete_variable(id, k, i1)
     /\ AuditAppended({"DELETE_VARIABLE"}, k))
      => /\ k \in DOMAIN read_vars(blob[get_env_path(id)])
         /\ k \notin DOMAIN read_vars(blob'[get_env_path(id)])

\* a CREATE_VARIABLE or UPDATE_VARIABLE record is appended by add_variable
\* only when the key has the new value in the current state afterwards
AddAuditedOnlyWhenStored ==
  \A id \in SpecIds, k \in FormKeys, v \in FormValues :
    (/\ \E i1 \in IVs : add_variable(id, k, v, i1)
     /\ AuditAppended({"CREATE_VARIABLE", "UPDATE_VARIABLE"}, Strip(k)))
      => /\ Strip(k) \in DOMAIN read_vars(blob'[get_env_path(id)])
         /\ read_vars(blob'[get_env_path(id)])[Strip(k)] = Strip(v)

\* C38: the audit log records a variable change only when it happened: a
\* DELETE_VARIABLE record only if delete_variable removed a key that was
\* present, a CREATE_VARIABLE or UPDATE_VARIABLE record of add_variable only
\* if the key is in the current state with the new value afterwards.
C38_AuditOnlyWhatHappened ==
  [][DeleteAuditedOnlyWhenDeleted /\ AddAuditedOnlyWhenStored]_vars

====
